---- MODULE Spec2Model ----
(***************************************************************************)
(* A model of the deep-research engine: the chunk splitter, the query      *)
(* expansion, the simple-mode fan-out, the reporting ladder, the           *)
(* exhaustive run and the web server's job lifecycle.                      *)
(*                                                                         *)
(* Texts whose content matters (chunking, queries) are sequences of        *)
(* one-character strings; texts of which only the size matters (the        *)
(* working context) are their length in bytes, as Go's len gives it.       *)
(***************************************************************************)
EXTENDS Integers, Sequences, FiniteSets, TLC

VARIABLES
    \* splitContextIntoChunks
    ckText, ckSize, ckChunks, ckPc,
    \* expandQueriesWithLLM
    exBase, exExpansion, exResult, exPc,
    \* parallelSearch (simple mode)
    psParallel, psQueries, psDeep, psPc, psLeft, psSem, psMu, psSources,
    psChan, psMain,
    \* the locks under which a.sources was accessed in simple mode
    psAccess,
    \* compressContext
    cmPc, cmCaller, cmIn, cmK, cmLeft, cmJoined, cmCount, cmOut, cmErr, cmPasses,
    \* the chunks of the current pass whose compression failed
    cmFailed,
    \* writeReport
    rpTokens, rpCtx, rpCeil, rpAttempt, rpPc, rpOut, rpCalls,
    \* how the last report call of writeReport failed
    rpChatErr,
    \* Config and plan of an exhaustive run
    cfgMaxLoops, cfgParallelQuery, cfgMinResults, cfgMaxPages, planQueries,
    \* DeepResearcher
    sources, seenURLs,
    \* RunExhaustive
    runPc, round, queryIndex, endIndex, totalURLsFound, totalDuplicates,
    researchContext, cancelObserved, runResult, runErr,
    \* searchWithPagination
    query, page, newURLs, duplicates, results, searchErr,
    \* the number of results of the pages processed in the current call of
    \* searchWithPagination (the sum of len(searchResults))
    resultCount,
    \* Server
    jobStatus, jobResult, jobError, cancelFunc, ctxErr, apPc, hcPc, execPc,
    \* normalizeURL applied to a URL, and to its own result; a page of that
    \* URL and another one, deduplicated
    nuURL, nuOnce, nuTwice, nuPc, nuOther, nuPair,
    \* Server.sseClients, their channels and handleProgress streams
    sseClients, sseCh, ssePc, sseGotTerminal, sseEmitted, sseTerminal,
    sseBroadcast, sseClosed, sseSentOnClosed,
    sseAtTerminal,
    \* CreatePlanExhaustive: plan.SearchQueries as parsed, the outcome of the
    \* expansion request, the returned plan's queries and error
    cpSeeds, cpExpansion, cpQueries, cpErr, cpPc,
    \* the page loop of searchWithPagination for one query: Config.MaxPages,
    \* the loop variable, the pages requested so far, the answer to the last
    \* request
    pgMaxPages, pgPage, pgRequested, pgAnswer, pgPc,
    \* concurrent /api/research and /api/approve requests: the status, owner
    \* and plan of s.currentJob, s.researcher, and for every request its
    \* kind, position, the values it read, its reply; the executeResearch
    \* goroutines started and the ones that have ended
    hStatus, hJob, hPlan, hResearcher, hKind, hPc, hRead, hReply, hRuns, hEnded,
    \* s.cancelFunc is set; the jobs that runs have written their outcome into
    hCancelFunc, hOutcomes,
    \* simple-mode Run on one researcher: Config.MaxLoops, the runs whose
    \* sources are in a.sources, and the locals and outcome of every call
    srMaxLoops, srSources, srRun

chunkVars == <<ckText, ckSize, ckChunks, ckPc>>
expVars == <<exBase, exExpansion, exResult, exPc>>
parVars == <<psParallel, psQueries, psDeep, psPc, psLeft, psSem, psMu, psSources,
             psChan, psMain, psAccess>>
cmVars == <<cmPc, cmCaller, cmIn, cmK, cmLeft, cmJoined, cmCount, cmOut, cmErr, cmPasses,
           cmFailed>>
rpVars == <<rpTokens, rpCtx, rpCeil, rpAttempt, rpPc, rpOut, rpCalls, rpChatErr>>
runVars == <<cfgMaxLoops, cfgParallelQuery, cfgMinResults, cfgMaxPages, planQueries,
             sources, seenURLs, runPc, round, queryIndex, endIndex,
             totalURLsFound, totalDuplicates, researchContext, cancelObserved,
             runResult, runErr, query, page, newURLs, duplicates, results,
             searchErr, resultCount>>
srvVars == <<jobStatus, jobResult, jobError, cancelFunc, ctxErr, apPc, hcPc, execPc>>
nuVars == <<nuURL, nuOnce, nuTwice, nuPc, nuOther, nuPair>>
\* the state of the functions that are checked on their own
sseVars == <<sseClients, sseCh, ssePc, sseGotTerminal, sseEmitted, sseTerminal,
             sseBroadcast, sseClosed, sseSentOnClosed,
             sseAtTerminal>>
cpVars == <<cpSeeds, cpExpansion, cpQueries, cpErr, cpPc>>
pgVars == <<pgMaxPages, pgPage, pgRequested, pgAnswer, pgPc>>
hVars == <<hStatus, hJob, hPlan, hResearcher, hKind, hPc, hRead, hReply, hRuns, hEnded,
          hCancelFunc, hOutcomes>>
srVars == <<srMaxLoops, srSources, srRun>>
pureVars == <<nuVars, sseVars, cpVars, pgVars, hVars, srVars>>
vars == <<chunkVars, expVars, parVars, cmVars, rpVars, runVars, srvVars, pureVars>>

\* what each component leaves alone
notChunk == <<pureVars, expVars, parVars, cmVars, rpVars, runVars, srvVars>>
notExp == <<pureVars, chunkVars, parVars, cmVars, rpVars, runVars, srvVars>>
notPar == <<pureVars, chunkVars, expVars, cmVars, rpVars, runVars, srvVars>>
notCm == <<pureVars, chunkVars, expVars, parVars, runVars, srvVars>>
notRp == <<pureVars, chunkVars, expVars, parVars, runVars, srvVars>>
notRun == <<chunkVars, expVars, parVars, pureVars>>
notPure == <<chunkVars, expVars, parVars, cmVars, rpVars, runVars, srvVars>>
notNu == <<sseVars, cpVars, pgVars, hVars, srVars, notPure>>
notSse == <<nuVars, cpVars, pgVars, hVars, srVars, notPure>>
notCp == <<nuVars, sseVars, pgVars, hVars, srVars, notPure>>
notPg == <<nuVars, sseVars, cpVars, hVars, srVars, notPure>>
notH == <<nuVars, sseVars, cpVars, pgVars, srVars, notPure>>
notSr == <<nuVars, sseVars, cpVars, pgVars, hVars, notPure>>

(***************************************************************************)
(* Strings (Go: strings package and slicing).                              *)
(***************************************************************************)
\* s[:n]
Prefix(s, n) == SubSeq(s, 1, n)

\* s[n:]
Suffix(s, n) == SubSeq(s, n + 1, Len(s))

\* whether sub occurs in s at 0-based offset i
OccursAt(s, sub, i) ==
    /\ i >= 0
    /\ i + Len(sub) <= Len(s)
    /\ \A k \in 1..Len(sub) : s[i + k] = sub[k]

\* strings.LastIndex(s, sub): the last 0-based offset of sub in s, or -1
LastIndex(s, sub) ==
    LET hits == {i \in 0..Len(s) : OccursAt(s, sub, i)}
    IN  IF hits = {} THEN -1 ELSE CHOOSE i \in hits : \A j \in hits : j <= i

\* strings.Index(s, sub): the first 0-based offset of sub in s, or -1
Index(s, sub) ==
    LET hits == {i \in 0..Len(s) : OccursAt(s, sub, i)}
    IN  IF hits = {} THEN -1 ELSE CHOOSE i \in hits : \A j \in hits : i <= j

\* strings.Contains
Contains(s, sub) == Index(s, sub) # -1

RECURSIVE Concat(_)
\* the members of a sequence of strings, joined with nothing between them
Concat(parts) ==
    IF parts = <<>> THEN <<>> ELSE Head(parts) \o Concat(Tail(parts))

(***************************************************************************)
(* splitContextIntoChunks                                                  *)
(***************************************************************************)
MaxTextLen == 8
MaxChunkSize == 6
ChunkChars == {"x", " ", "\n"}

\* int(float64(maxChunkSize) * 0.8)
SearchStart(maxChunkSize) == (maxChunkSize * 8) \div 10

\* the mutant: a line break found at idx is taken two past it, as a paragraph is
BreakPointLineAsParagraph(chunk, maxChunkSize) ==
    LET searchStart == SearchStart(maxChunkSize)
        window == Suffix(chunk, searchStart)
        para == LastIndex(window, <<"\n", "\n">>)
        line == LastIndex(window, <<"\n">>)
        space == LastIndex(window, <<" ">>)
    IN  IF para # -1 THEN searchStart + para + 2
        ELSE IF line # -1 THEN searchStart + line + 2
        ELSE IF space # -1 THEN searchStart + space + 1
        ELSE maxChunkSize

\* the break point of one iteration: after the last paragraph break, else line
\* break, else space of the last 20% of the chunk, else the chunk size
BreakPoint(chunk, maxChunkSize) ==
    LET searchStart == SearchStart(maxChunkSize)
        window == Suffix(chunk, searchStart)
        para == LastIndex(window, <<"\n", "\n">>)
        line == LastIndex(window, <<"\n">>)
        space == LastIndex(window, <<" ">>)
    IN  IF para # -1 THEN searchStart + para + 2
        ELSE IF line # -1 THEN searchStart + line + 1
        ELSE IF space # -1 THEN searchStart + space + 1
        ELSE maxChunkSize

\* the mutant: the character at the break point is dropped with the separator
RestAfterSeparator(remaining, breakPoint) == Suffix(remaining, breakPoint + 1)

\* remaining = remaining[breakPoint:]
Rest(remaining, breakPoint) == Suffix(remaining, breakPoint)

RECURSIVE SplitLoop(_, _)
\* the for loop: the chunks of what remains
SplitLoop(remaining, maxChunkSize) ==
    IF Len(remaining) = 0 THEN <<>>
    ELSE IF Len(remaining) <= maxChunkSize THEN <<remaining>>
    ELSE LET breakPoint == BreakPoint(Prefix(remaining, maxChunkSize), maxChunkSize)
         IN  <<Prefix(remaining, breakPoint)>>
                 \o SplitLoop(Rest(remaining, breakPoint), maxChunkSize)

splitContextIntoChunks(text, maxChunkSize) ==
    IF Len(text) <= maxChunkSize THEN <<text>> ELSE SplitLoop(text, maxChunkSize)

ChunkTexts == UNION {[1..n -> ChunkChars] : n \in 0..MaxTextLen}

ChunkIdle ==
    /\ ckText = <<>>
    /\ ckSize = 0
    /\ ckChunks = <<>>
    /\ ckPc = "idle"

ChunkInit ==
    /\ ckText \in ChunkTexts
    /\ ckSize \in 1..MaxChunkSize
    /\ ckChunks = <<>>
    /\ ckPc = "call"

\* one call of splitContextIntoChunks on the drawn input
Split ==
    /\ ckPc = "call"
    /\ ckChunks' = splitContextIntoChunks(ckText, ckSize)
    /\ ckPc' = "returned"
    /\ UNCHANGED <<ckText, ckSize>>
    /\ UNCHANGED notChunk

(***************************************************************************)
(* expandQueriesWithLLM                                                    *)
(***************************************************************************)
maxQueries == 150
MaxSeeds == 2
MaxPlatforms == 150

\* n copies of the character c
Rep(c, n) == [i \in 1..n |-> c]

\* strings.ToLower, on the letters the inputs use in upper case
LowerChar(c) ==
    CASE c = "A" -> "a"
      [] c = "F" -> "f"
      [] c = "L" -> "l"
      [] c = "T" -> "t"
      [] OTHER -> c

ToLower(s) == [i \in 1..Len(s) |-> LowerChar(s[i])]

RECURSIVE ReplaceAll(_, _, _)
\* strings.ReplaceAll(s, old, new); an empty old matches before every
\* character and at the end
ReplaceAll(s, old, new) ==
    IF old = <<>>
    THEN IF s = <<>> THEN new
         ELSE new \o <<Head(s)>> \o ReplaceAll(Tail(s), old, new)
    ELSE IF s = <<>> THEN <<>>
    ELSE IF OccursAt(s, old, 0)
         THEN new \o ReplaceAll(Suffix(s, Len(old)), old, new)
         ELSE <<Head(s)>> \o ReplaceAll(Tail(s), old, new)

\* the elements of a slice
Elems(seq) == {seq[i] : i \in 1..Len(seq)}

\* 1. the base queries of at most 60 bytes
BaseContribution(baseQueries) ==
    {q \in Elems(baseQueries) : Len(q) <= 60}

\* 2. platform + " " + q for every base query of at most 40 bytes and every
\* non-empty platform
PlatformContribution(baseQueries, expansion) ==
    {platform \o <<" ">> \o q :
        q \in {b \in Elems(baseQueries) : ~(Len(b) > 40)},
        platform \in {pl \in Elems(expansion.Platforms) : pl # <<>>}}

\* the mutant: only the first alternative of a word is used
SynonymContributionFirstOnly(baseQueries, expansion) ==
    LET variants ==
            UNION {UNION {{ReplaceAll(ToLower(q), ToLower(word), ToLower(syn)) :
                              syn \in {a \in Elems(SubSeq(expansion.Synonyms[word], 1, 1)) :
                                           ToLower(a) # ToLower(word)}} :
                          word \in {w \in DOMAIN expansion.Synonyms :
                                       Contains(ToLower(q), ToLower(w))}} :
                   q \in {b \in Elems(baseQueries) : ~(Len(b) > 50)}}
    IN  {v \in variants : Len(v) <= 60}

\* 3. for every base query of at most 50 bytes, every synonym word its lower
\* case contains and every alternative whose lower case differs from the
\* word's: the lower-cased query with the word replaced, if at most 60 bytes
SynonymContribution(baseQueries, expansion) ==
    LET variants ==
            UNION {UNION {{ReplaceAll(ToLower(q), ToLower(word), ToLower(syn)) :
                              syn \in {a \in Elems(expansion.Synonyms[word]) :
                                           ToLower(a) # ToLower(word)}} :
                          word \in {w \in DOMAIN expansion.Synonyms :
                                       Contains(ToLower(q), ToLower(w))}} :
                   q \in {b \in Elems(baseQueries) : ~(Len(b) > 50)}}
    IN  {v \in variants : Len(v) <= 60}

\* the keys of the map expanded when the cap loop starts
Expanded(baseQueries, expansion) ==
    BaseContribution(baseQueries)
        \cup PlatformContribution(baseQueries, expansion)
        \cup SynonymContribution(baseQueries, expansion)

\* the mutant: the loop breaks once the result is longer than the cap
ResultLenBreakAfterCap(n) == IF n > maxQueries THEN maxQueries + 1 ELSE n

\* len(result) when the cap loop ends, for n keys in the map
ResultLen(n) == IF n >= maxQueries THEN maxQueries ELSE n

RECURSIVE KSubsets(_, _)
\* the subsets of S with k members
KSubsets(S, k) ==
    IF k = 0 THEN {{}}
    ELSE UNION {{D \cup {x} : D \in KSubsets(S \ {x}, k - 1)} : x \in S}

\* The results the cap loop can return. It ranges over a Go map, whose
\* iteration order is unspecified: any ResultLen keys may be the ones taken.
\* The result is a slice of distinct queries in that unspecified order; it
\* is modelled as their set.
CapResults(expanded) ==
    {expanded \ dropped :
        dropped \in KSubsets(expanded, Cardinality(expanded) - ResultLen(Cardinality(expanded)))}

expandQueriesWithLLM(baseQueries, expansion) ==
    CapResults(Expanded(baseQueries, expansion))

\* ---- inputs ----
FlatForRent == <<"a", " ", "f", "l", "a", "t", " ", "f", "o", "r", " ", "r", "e", "n", "t">>
FlatUpper == <<"A", " ", "F", "L", "A", "T">>
Flat == <<"f", "l", "a", "t">>
Apartment == <<"a", "p", "a", "r", "t", "m", "e", "n", "t">>
\* a query of n bytes that starts with "flat "
FlatPadded(n) == Flat \o <<" ">> \o Rep("x", n - 5)
SitePrefix == <<"s", "i", "t", "e", ":">>
Digits == <<"0", "1", "2", "3", "4", "5", "6", "7", "8", "9">>
Num3(i) == <<Digits[(i \div 100) + 1], Digits[((i \div 10) % 10) + 1], Digits[(i % 10) + 1]>>
\* "site:" and a three-digit host, one per i
NumberedPlatform(i) == SitePrefix \o Num3(i)
\* "site:" and a host of 23 bytes
LongPlatform == SitePrefix \o Rep("w", 23)

SeedPool ==
    {FlatForRent, FlatUpper, FlatPadded(40), FlatPadded(41), FlatPadded(50),
     FlatPadded(51), FlatPadded(60), FlatPadded(61)}

SeedLists == UNION {[1..n -> SeedPool] : n \in 1..MaxSeeds}

FewPlatforms ==
    {<<>>, <<<<>>>>, <<NumberedPlatform(1)>>, <<LongPlatform>>,
     <<NumberedPlatform(1), LongPlatform, NumberedPlatform(1)>>}

ManyPlatforms ==
    {[i \in 1..n |-> NumberedPlatform(i)] : n \in (MaxPlatforms - 2)..MaxPlatforms}

SynonymMaps ==
    {<<>>,
     [w \in {Flat} |-> <<Apartment>>],
     [w \in {<<"F", "l", "a", "t">>} |-> <<<<"F", "L", "A", "T">>, <<"c", "o", "n", "d", "o">>>>],
     [w \in {Flat, <<"r", "e", "n", "t">>} |->
          IF w = Flat THEN <<Apartment, Rep("y", 15)>> ELSE <<<<"l", "e", "t">>>>]}

\* the inputs drawn: up to MaxSeeds seeds with a few platforms and synonyms,
\* or one seed with about as many platforms as the cap, without synonyms or
\* with one
ExpandInputs ==
    {<<b, [Synonyms |-> sy, Platforms |-> pl]>> :
        b \in SeedLists, sy \in SynonymMaps, pl \in FewPlatforms}
    \cup {<<b, [Synonyms |-> <<>>, Platforms |-> pl]>> :
        b \in [1..1 -> SeedPool], pl \in ManyPlatforms}
    \cup {<<<<FlatForRent>>, [Synonyms |-> [w \in {Flat} |-> <<Apartment>>],
                              Platforms |-> pl]>> :
        pl \in {m \in ManyPlatforms : Len(m) < MaxPlatforms}}

ExpIdle ==
    /\ exBase = <<>>
    /\ exExpansion = <<>>
    /\ exResult = {}
    /\ exPc = "idle"

ExpInit ==
    /\ \E in \in ExpandInputs :
          /\ exBase = in[1]
          /\ exExpansion = in[2]
    /\ exResult = {}
    /\ exPc = "call"

\* one call of expandQueriesWithLLM on the drawn input
Expand ==
    /\ exPc = "call"
    /\ exResult' \in expandQueriesWithLLM(exBase, exExpansion)
    /\ exPc' = "returned"
    /\ UNCHANGED <<exBase, exExpansion>>
    /\ UNCHANGED notExp

(***************************************************************************)
(* parallelSearch: the fan-out of simple mode. One goroutine per query;    *)
(* sem is a buffered channel of capacity ParallelQuery, mu a mutex local   *)
(* to the call, resultsChan a channel of capacity len(queries).            *)
(***************************************************************************)
MaxParallel == 2
MaxParQueries == 3
MaxItems == 1
maxListingsPerQuery == 5

\* the goroutines of one call, one per query
Tasks == 1..psQueries

\* the mutant: the gate is made one slot larger than the setting
SemCapOneMore(parallelQuery) == parallelQuery + 1

\* cap(sem) of sem := make(chan struct{}, a.config.ParallelQuery)
SemCap(parallelQuery) == parallelQuery

\* the results a task goes through: at most 5 of them in either mode
ItemsTaken(n) == IF n > maxListingsPerQuery THEN maxListingsPerQuery ELSE n

\* the lock a goroutine holds: the only one simple mode takes is the mutex
\* declared in parallelSearch, a new one for every call
LockHeldBy(t) == IF psMu = t THEN "parallelSearch.mu" ELSE "none"

\* the tasks between acquire and release
Holding == {t \in Tasks : psPc[t] \in {"search", "process", "locked", "send"}}

ParIdle ==
    /\ psParallel = 0
    /\ psQueries = 0
    /\ psDeep = FALSE
    /\ psPc = <<>>
    /\ psLeft = <<>>
    /\ psSem = 0
    /\ psMu = 0
    /\ psSources = <<>>
    /\ psChan = 0
    /\ psMain = "idle"
    /\ psAccess = {}

\* the state when every goroutine has been started and the caller waits
ParInit ==
    /\ psParallel \in 0..MaxParallel
    /\ psQueries \in 1..MaxParQueries
    /\ psDeep \in BOOLEAN
    /\ psPc = [t \in 1..psQueries |-> "acquire"]
    /\ psLeft = [t \in 1..psQueries |-> 0]
    /\ psSem = 0
    /\ psMu = 0
    /\ psSources = <<>>
    /\ psChan = 0
    /\ psMain = "wait"
    /\ psAccess = {}

\* sem <- struct{}{}: blocks while the channel is full
Acquire(t) ==
    /\ psPc[t] = "acquire"
    /\ psSem < SemCap(psParallel)
    /\ psSem' = psSem + 1
    /\ psPc' = [psPc EXCEPT ![t] = "search"]
    /\ UNCHANGED <<psAccess, psParallel, psQueries, psDeep, psLeft, psMu, psSources, psChan, psMain>>
    /\ UNCHANGED notPar

\* a.searcher.Search(query) fails or finds nothing: the message is sent
SearchNothing(t) ==
    /\ psPc[t] = "search"
    /\ psPc' = [psPc EXCEPT ![t] = "send"]
    /\ UNCHANGED <<psAccess, psParallel, psQueries, psDeep, psLeft, psSem, psMu, psSources, psChan, psMain>>
    /\ UNCHANGED notPar

\* a.searcher.Search(query) returns n results
SearchResults(t) ==
    /\ psPc[t] = "search"
    /\ \E n \in 1..MaxItems :
          psLeft' = [psLeft EXCEPT ![t] = ItemsTaken(n)]
    /\ psPc' = [psPc EXCEPT ![t] = "process"]
    /\ UNCHANGED <<psAccess, psParallel, psQueries, psDeep, psSem, psMu, psSources, psChan, psMain>>
    /\ UNCHANGED notPar

\* deep mode: a page whose content cannot be fetched (or is under 50 bytes)
\* is skipped and records no source
SkipItem(t) ==
    /\ psPc[t] = "process"
    /\ psDeep
    /\ psLeft[t] > 0
    /\ psLeft' = [psLeft EXCEPT ![t] = @ - 1]
    /\ UNCHANGED <<psAccess, psParallel, psQueries, psDeep, psPc, psSem, psMu, psSources, psChan, psMain>>
    /\ UNCHANGED notPar

\* mu.Lock() before the append of a result's source
LockMu(t) ==
    /\ psPc[t] = "process"
    /\ psLeft[t] > 0
    /\ psMu = 0
    /\ psMu' = t
    /\ psPc' = [psPc EXCEPT ![t] = "locked"]
    /\ UNCHANGED <<psAccess, psParallel, psQueries, psDeep, psLeft, psSem, psSources, psChan, psMain>>
    /\ UNCHANGED notPar

\* a.sources = append(a.sources, ...); mu.Unlock()
AppendSource(t) ==
    /\ psPc[t] = "locked"
    /\ psSources' = Append(psSources, <<t, psLeft[t]>>)
    /\ psAccess' = psAccess \cup {LockHeldBy(t)}
    /\ psMu' = 0
    /\ psLeft' = [psLeft EXCEPT ![t] = @ - 1]
    /\ psPc' = [psPc EXCEPT ![t] = "process"]
    /\ UNCHANGED <<psParallel, psQueries, psDeep, psSem, psChan, psMain>>
    /\ UNCHANGED notPar

\* the results are through: the task goes on to send its text
ItemsDone(t) ==
    /\ psPc[t] = "process"
    /\ psLeft[t] = 0
    /\ psPc' = [psPc EXCEPT ![t] = "send"]
    /\ UNCHANGED <<psAccess, psParallel, psQueries, psDeep, psLeft, psSem, psMu, psSources, psChan, psMain>>
    /\ UNCHANGED notPar

\* resultsChan <- text: blocks while the channel holds len(queries) messages
SendResult(t) ==
    /\ psPc[t] = "send"
    /\ psChan < psQueries
    /\ psChan' = psChan + 1
    /\ psPc' = [psPc EXCEPT ![t] = "release"]
    /\ UNCHANGED <<psAccess, psParallel, psQueries, psDeep, psLeft, psSem, psMu, psSources, psMain>>
    /\ UNCHANGED notPar

\* the deferred <-sem, then the deferred wg.Done()
Release(t) ==
    /\ psPc[t] = "release"
    /\ psSem > 0
    /\ psSem' = psSem - 1
    /\ psPc' = [psPc EXCEPT ![t] = "done"]
    /\ UNCHANGED <<psAccess, psParallel, psQueries, psDeep, psLeft, psMu, psSources, psChan, psMain>>
    /\ UNCHANGED notPar

\* wg.Wait() returns; the channel is closed and drained; parallelSearch returns
ParReturn ==
    /\ psMain = "wait"
    /\ \A t \in Tasks : psPc[t] = "done"
    /\ psChan' = 0
    /\ psMain' = "returned"
    /\ UNCHANGED <<psAccess, psParallel, psQueries, psDeep, psPc, psLeft, psSem, psMu, psSources>>
    /\ UNCHANGED notPar

\* Run after its last round: ResearchResult{Sources: a.sources} is returned,
\* the field read without a lock
RunReturnSources ==
    /\ psMain = "returned"
    /\ psMain' = "run returned"
    /\ psAccess' = psAccess \cup {"none"}
    /\ UNCHANGED <<psParallel, psQueries, psDeep, psPc, psLeft, psSem, psMu, psSources, psChan>>
    /\ UNCHANGED notPar

(***************************************************************************)
(* compressContext, compressContextDirect, compressContextChunked.         *)
(* The working context is its length in bytes. The recursion of the        *)
(* chunked strategy is a tail call, so one activation record is enough:    *)
(* cmIn is the argument of the current pass.                               *)
(***************************************************************************)
MaxPasses == 2
MaxBudgetMultiple == 1
minCompressedLen == 200
minChunkSize == 2000
truncatedMarkerLen == 19
separatorLen == 7
defaultContextChars == 98304

\* Config.maxContextChars
maxContextChars(contextLength) ==
    IF contextLength <= 0 THEN defaultContextChars ELSE (contextLength * 35) \div 10

\* int(float64(maxChars) * 0.6)
MaxInputChars(maxChars) == (maxChars * 6) \div 10

\* int(float64(maxChars) * 0.5)
HalfChars(maxChars) == (maxChars * 5) \div 10

\* chunkSize of compressContextChunked
ChunkSize(maxChars) ==
    IF HalfChars(maxChars) < minChunkSize THEN minChunkSize ELSE HalfChars(maxChars)

\* the budget of the run in bytes
Budget == maxContextChars(rpTokens)

\* The lengths the generation capability may answer with (after
\* stripThinkTags and TrimSpace) when asked to compress n bytes with ratio
\* 0.5 / k: too short, just long enough, the length asked for, no shorter
\* than the input.
CompressedLens(n, k) == {minCompressedLen - 1, minCompressedLen, n \div (2 * k), n}

\* The lengths of a chunk cut from more than maxChunkSize remaining bytes:
\* the break point lies after the first 80% of the chunk and within it.
ChunkLens(maxChunkSize) == {SearchStart(maxChunkSize) + 1, maxChunkSize}

\* what would stand for a failed chunk if it were cut at half the chunk size
TruncatedChunkAtHalf(c, chunkSize) ==
    IF c > chunkSize \div 2 THEN chunkSize \div 2 + truncatedMarkerLen ELSE c
\* what stands for a chunk of c bytes whose compression failed
TruncatedChunk(c, chunkSize) ==
    IF c > chunkSize \div 4 THEN chunkSize \div 4 + truncatedMarkerLen ELSE c

\* len(strings.Join(parts, sep)) after one more part
Joined(joined, count, part) ==
    IF count = 0 THEN part ELSE joined + separatorLen + part

CmIdle ==
    /\ cmPc = "idle"
    /\ cmCaller = "none"
    /\ cmIn = 0
    /\ cmK = 1
    /\ cmLeft = 0
    /\ cmJoined = 0
    /\ cmCount = 0
    /\ cmOut = 0
    /\ cmErr = FALSE
    /\ cmPasses = 0
    /\ cmFailed = 0

\* a call compressContext(context, 0.5 / k) by caller
CallCompress(caller, context, k) ==
    /\ cmPc' = "enter"
    /\ cmCaller' = caller
    /\ cmIn' = context
    /\ cmK' = k
    /\ cmLeft' = 0
    /\ cmJoined' = 0
    /\ cmCount' = 0
    /\ cmOut' = 0
    /\ cmErr' = FALSE
    /\ cmPasses' = 0
    /\ cmFailed' = 0

\* the caller has taken the returned values: the call's locals are gone
CompressTaken ==
    /\ cmPc' = "idle"
    /\ cmCaller' = "none"
    /\ cmIn' = 0
    /\ cmK' = 1
    /\ cmLeft' = 0
    /\ cmJoined' = 0
    /\ cmCount' = 0
    /\ cmOut' = 0
    /\ cmErr' = FALSE
    /\ cmPasses' = 0
    /\ cmFailed' = 0

\* compressContext called on its own with ratio 0.5: ContextLength and the
\* length of the context. 1143 tokens are a budget of 4,000 bytes, 500
\* tokens one of 1,750 bytes.
CompressCalls ==
    {<<1143, 10000>>, <<1143, 2401>>, <<1143, 2400>>, <<1143, 199>>,
     <<500, 4000>>, <<500, 1051>>, <<500, 1050>>}

CmInit ==
    /\ cmPc = "enter"
    /\ cmCaller = "unit"
    /\ \E call \in CompressCalls :
          /\ rpTokens = call[1]
          /\ cmIn = call[2]
    /\ cmK = 1
    /\ cmLeft = 0
    /\ cmJoined = 0
    /\ cmCount = 0
    /\ cmOut = 0
    /\ cmErr = FALSE
    /\ cmPasses = 0
    /\ cmFailed = 0

\* compressContextDirect on the whole context: the capability fails
DirectError ==
    /\ cmPc = "enter"
    /\ cmIn <= MaxInputChars(Budget)
    /\ cmOut' = cmIn
    /\ cmErr' = TRUE
    /\ cmPc' = "done"
    /\ UNCHANGED <<cmCaller, cmIn, cmK, cmLeft, cmJoined, cmCount, cmPasses, cmFailed>>
    /\ UNCHANGED <<rpVars, notCm>>

\* compressContextDirect on the whole context, as a bug would have it: an
\* answer under 200 bytes is returned as the compressed text
DirectTooSmallAccepted ==
    /\ cmPc = "enter"
    /\ cmIn <= MaxInputChars(Budget)
    /\ \E n \in CompressedLens(cmIn, cmK) :
          /\ n < minCompressedLen
          /\ cmOut' = n
    /\ cmErr' = FALSE
    /\ cmPc' = "done"
    /\ UNCHANGED <<cmCaller, cmIn, cmK, cmLeft, cmJoined, cmCount, cmPasses, cmFailed>>
    /\ UNCHANGED <<rpVars, notCm>>
\* compressContextDirect on the whole context: the answer is under 200 bytes
DirectTooSmall ==
    /\ cmPc = "enter"
    /\ cmIn <= MaxInputChars(Budget)
    /\ \E n \in CompressedLens(cmIn, cmK) : n < minCompressedLen
    /\ cmOut' = cmIn
    /\ cmErr' = TRUE
    /\ cmPc' = "done"
    /\ UNCHANGED <<cmCaller, cmIn, cmK, cmLeft, cmJoined, cmCount, cmPasses, cmFailed>>
    /\ UNCHANGED <<rpVars, notCm>>

\* compressContextDirect on the whole context: the answer is returned
DirectOk ==
    /\ cmPc = "enter"
    /\ cmIn <= MaxInputChars(Budget)
    /\ \E n \in CompressedLens(cmIn, cmK) :
          /\ ~(n < minCompressedLen)
          /\ cmOut' = n
    /\ cmErr' = FALSE
    /\ cmPc' = "done"
    /\ UNCHANGED <<cmCaller, cmIn, cmK, cmLeft, cmJoined, cmCount, cmPasses, cmFailed>>
    /\ UNCHANGED <<rpVars, notCm>>

\* the context is over the direct ceiling: compressContextChunked splits it
ChunkedStart ==
    /\ cmPc = "enter"
    /\ ~(cmIn <= MaxInputChars(Budget))
    /\ cmLeft' = cmIn
    /\ cmJoined' = 0
    /\ cmCount' = 0
    /\ cmFailed' = 0
    /\ cmPc' = "chunks"
    /\ UNCHANGED <<cmCaller, cmIn, cmK, cmOut, cmErr, cmPasses>>
    /\ UNCHANGED <<rpVars, notCm>>

\* the next chunk: what is left if it fits the chunk size, else a cut at a
\* break point
NextChunkLens ==
    IF cmLeft <= ChunkSize(Budget) THEN {cmLeft} ELSE ChunkLens(ChunkSize(Budget))

\* one chunk whose compression failed (error or under 200 bytes): truncated
ChunkFailed ==
    /\ cmPc = "chunks"
    /\ cmLeft > 0
    /\ \E c \in NextChunkLens :
          /\ cmLeft' = cmLeft - c
          /\ cmJoined' = Joined(cmJoined, cmCount, TruncatedChunk(c, ChunkSize(Budget)))
    /\ cmCount' = cmCount + 1
    /\ cmFailed' = cmFailed + 1
    /\ UNCHANGED <<cmPc, cmCaller, cmIn, cmK, cmOut, cmErr, cmPasses>>
    /\ UNCHANGED <<rpVars, notCm>>

\* one chunk compressed by compressContextDirect
ChunkCompressed ==
    /\ cmPc = "chunks"
    /\ cmLeft > 0
    /\ \E c \in NextChunkLens :
          /\ cmLeft' = cmLeft - c
          /\ \E n \in CompressedLens(c, cmK) :
                /\ ~(n < minCompressedLen)
                /\ cmJoined' = Joined(cmJoined, cmCount, n)
    /\ cmCount' = cmCount + 1
    /\ UNCHANGED <<cmPc, cmCaller, cmIn, cmK, cmOut, cmErr, cmPasses, cmFailed>>
    /\ UNCHANGED <<rpVars, notCm>>

\* the joined parts are still over 60% of the budget: compressContext again,
\* on the joined parts. cmPasses counts the passes that changed the text, at
\* most MaxPasses of them in the model; a pass that gave the text back as it
\* was is followed by the same pass again.
ChunkedRecurse ==
    /\ cmPc = "chunks"
    /\ cmLeft = 0
    /\ cmJoined > MaxInputChars(Budget)
    /\ cmPasses < MaxPasses \/ cmJoined = cmIn
    /\ cmIn' = cmJoined
    /\ cmPasses' = IF cmJoined = cmIn THEN cmPasses ELSE cmPasses + 1
    /\ cmPc' = "enter"
    /\ UNCHANGED <<cmCaller, cmK, cmLeft, cmJoined, cmCount, cmOut, cmErr, cmFailed>>
    /\ UNCHANGED <<rpVars, notCm>>

\* the joined parts are returned, as a bug would have it: whatever their
\* length
ChunkedReturnOversized ==
    /\ cmPc = "chunks"
    /\ cmLeft = 0
    /\ cmOut' = cmJoined
    /\ cmErr' = FALSE
    /\ cmPc' = "done"
    /\ UNCHANGED <<cmCaller, cmIn, cmK, cmLeft, cmJoined, cmCount, cmPasses, cmFailed>>
    /\ UNCHANGED <<rpVars, notCm>>
\* the joined parts are returned
ChunkedReturn ==
    /\ cmPc = "chunks"
    /\ cmLeft = 0
    /\ ~(cmJoined > MaxInputChars(Budget))
    /\ cmOut' = cmJoined
    /\ cmErr' = FALSE
    /\ cmPc' = "done"
    /\ UNCHANGED <<cmCaller, cmIn, cmK, cmLeft, cmJoined, cmCount, cmPasses, cmFailed>>
    /\ UNCHANGED <<rpVars, notCm>>

NextCompress ==
    \/ DirectError
    \/ DirectTooSmall
    \/ DirectOk
    \/ ChunkedStart
    \/ ChunkFailed
    \/ ChunkCompressed
    \/ ChunkedRecurse
    \/ ChunkedReturn

(***************************************************************************)
(* writeReport                                                             *)
(***************************************************************************)
maxRetries == 3

\* the hard truncation after a failed compression
HardTruncate(context, ceiling) == IF context > ceiling THEN ceiling ELSE context

ContextLengths == {500, 1143}

\* the lengths of the context writeReport is called with, around the
\* thresholds of a budget of maxChars bytes
ReportContexts(maxChars) ==
    {HalfChars(maxChars), HalfChars(maxChars) + 1,
     MaxInputChars(maxChars), MaxInputChars(maxChars) + 1}
        \cup {j * maxChars + HalfChars(maxChars) : j \in 1..MaxBudgetMultiple}

RpIdle ==
    /\ rpTokens = 0
    /\ rpCtx = 0
    /\ rpCeil = 0
    /\ rpAttempt = 0
    /\ rpPc = "idle"
    /\ rpOut = "none"
    /\ rpCalls = 0
    /\ rpChatErr = "none"

\* writeReport(topic, context) entered with the retry loop about to start
CallWriteReport(context) ==
    /\ rpCtx' = context
    /\ rpCeil' = HalfChars(Budget)
    /\ rpAttempt' = 1
    /\ rpPc' = "attempt"
    /\ rpOut' = "none"
    /\ rpCalls' = 0
    /\ rpChatErr' = "none"
    /\ UNCHANGED rpTokens

RpInit ==
    /\ rpTokens \in ContextLengths
    /\ rpCtx \in ReportContexts(maxContextChars(rpTokens))
    /\ rpCeil = HalfChars(maxContextChars(rpTokens))
    /\ rpAttempt = 1
    /\ rpPc = "attempt"
    /\ rpOut = "none"
    /\ rpCalls = 0
    /\ rpChatErr = "none"

\* the context is within the ceiling: no compression on this attempt
ReportFits ==
    /\ rpPc = "attempt"
    /\ ~(rpCtx > rpCeil)
    /\ rpPc' = "chat"
    /\ UNCHANGED <<rpTokens, rpCtx, rpCeil, rpAttempt, rpOut, rpCalls, rpChatErr>>
    /\ UNCHANGED <<cmVars, notRp>>

\* targetRatio, as a bug would have it: 0.5 on every attempt
TargetDivisorFixed(attempt) == 1
\* targetRatio := 0.5 / float64(attempt), as the k of 0.5 / k
TargetDivisor(attempt) == attempt

\* the context is over the ceiling: compressContext(currentContext, 0.5/attempt)
ReportCompress ==
    /\ rpPc = "attempt"
    /\ rpCtx > rpCeil
    /\ CallCompress("report", rpCtx, TargetDivisor(rpAttempt))
    /\ rpPc' = "compressing"
    /\ UNCHANGED <<rpTokens, rpCtx, rpCeil, rpAttempt, rpOut, rpCalls, rpChatErr>>
    /\ UNCHANGED notRp

\* compressContext returned an error: hard truncation to the ceiling
ReportCompressFailed ==
    /\ rpPc = "compressing"
    /\ cmPc = "done"
    /\ cmCaller = "report"
    /\ cmErr
    /\ rpCtx' = HardTruncate(rpCtx, rpCeil)
    /\ rpPc' = "chat"
    /\ CompressTaken
    /\ UNCHANGED <<rpTokens, rpCeil, rpAttempt, rpOut, rpCalls, rpChatErr>>
    /\ UNCHANGED notRp

\* compressContext returned a text: it becomes the current context
ReportCompressed ==
    /\ rpPc = "compressing"
    /\ cmPc = "done"
    /\ cmCaller = "report"
    /\ ~cmErr
    /\ rpCtx' = cmOut
    /\ rpPc' = "chat"
    /\ CompressTaken
    /\ UNCHANGED <<rpTokens, rpCeil, rpAttempt, rpOut, rpCalls, rpChatErr>>
    /\ UNCHANGED notRp

\* the report call answers; the report is the answer without its think block,
\* trimmed: it may be empty
ReportChatOk ==
    /\ rpPc = "chat"
    /\ rpOut' \in {"report", "empty"}
    /\ rpCalls' = rpCalls + 1
    /\ rpChatErr' = "none"
    /\ rpPc' = "returned"
    /\ UNCHANGED <<rpTokens, rpCtx, rpCeil, rpAttempt>>
    /\ UNCHANGED <<cmVars, notRp>>

\* the report call fails with a budget error before the last attempt, as a
\* bug would have it: the next attempt has the same ceiling
ReportChatBudgetErrorSameCeiling ==
    /\ rpPc = "chat"
    /\ rpAttempt < maxRetries
    /\ rpCeil' = rpCeil
    /\ rpAttempt' = rpAttempt + 1
    /\ rpCalls' = rpCalls + 1
    /\ rpChatErr' = "budget"
    /\ rpPc' = "attempt"
    /\ UNCHANGED <<rpTokens, rpCtx, rpOut>>
    /\ UNCHANGED <<cmVars, notRp>>
\* the report call fails with an error that mentions "context" or "token",
\* before the last attempt: the ceiling is halved and the loop goes on
ReportChatBudgetError ==
    /\ rpPc = "chat"
    /\ rpAttempt < maxRetries
    /\ rpCeil' = rpCeil \div 2
    /\ rpAttempt' = rpAttempt + 1
    /\ rpCalls' = rpCalls + 1
    /\ rpChatErr' = "budget"
    /\ rpPc' = "attempt"
    /\ UNCHANGED <<rpTokens, rpCtx, rpOut>>
    /\ UNCHANGED <<cmVars, notRp>>

\* the report call fails, as a bug would have it: before the last attempt
\* any error is taken for a budget error and the loop goes on
ReportChatFatalRetried ==
    /\ rpPc = "chat"
    /\ rpCalls' = rpCalls + 1
    /\ IF rpAttempt < maxRetries
       THEN /\ rpChatErr' = "other"
            /\ rpCeil' = rpCeil \div 2
            /\ rpAttempt' = rpAttempt + 1
            /\ rpPc' = "attempt"
            /\ UNCHANGED rpOut
       ELSE /\ rpChatErr' \in {"other", "budget"}
            /\ rpOut' = "error"
            /\ rpPc' = "returned"
            /\ UNCHANGED <<rpCeil, rpAttempt>>
    /\ UNCHANGED <<rpTokens, rpCtx>>
    /\ UNCHANGED <<cmVars, notRp>>
\* the report call fails with an error that mentions neither "context" nor
\* "token", or with any error on the last attempt
ReportChatFatal ==
    /\ rpPc = "chat"
    /\ rpOut' = "error"
    /\ rpCalls' = rpCalls + 1
    /\ rpChatErr' \in IF rpAttempt < maxRetries THEN {"other"} ELSE {"other", "budget"}
    /\ rpPc' = "returned"
    /\ UNCHANGED <<rpTokens, rpCtx, rpCeil, rpAttempt>>
    /\ UNCHANGED <<cmVars, notRp>>

NextWriteReport ==
    \/ ReportFits
    \/ ReportCompress
    \/ ReportCompressFailed
    \/ ReportCompressed
    \/ ReportChatOk
    \/ ReportChatBudgetError
    \/ ReportChatFatal

(***************************************************************************)
(* URLs and normalizeURL.                                                  *)
(* A URL is its site and path, the number of slashes its path ends with,   *)
(* the keys of its query in the order written, and whether url.Parse       *)
(* accepts it.                                                             *)
(***************************************************************************)
trackingParams ==
    {"utm_source", "utm_medium", "utm_campaign", "utm_content", "utm_term",
     "fbclid", "gclid", "ref", "source"}

\* the keys of the model's URLs in the order url.Values.Encode writes them
\* (sorted by key)
KeyOrder == <<"id", "page", "ref", "utm_source">>

\* q.Del(param) for every tracking parameter
DelTracking(params) == {params[i] : i \in 1..Len(params)} \ trackingParams

\* q.Encode()
Encode(q) == SelectSeq(KeyOrder, LAMBDA k : k \in q)

\* strings.TrimSuffix(s, "/") on a path that ends with n slashes
TrimSuffixSlash(n) == IF n > 0 THEN n - 1 ELSE 0

normalizeURL(rawURL) ==
    IF ~rawURL.parses
    THEN \* the suffix of the raw text is its query when it has one
         IF rawURL.params = <<>>
         THEN [rawURL EXCEPT !.slashes = TrimSuffixSlash(@)]
         ELSE rawURL
    ELSE [rawURL EXCEPT !.params = Encode(DelTracking(@)),
                        !.slashes = TrimSuffixSlash(@)]

URL(site, slashes, params, parses) ==
    [site |-> site, slashes |-> slashes, params |-> params, parses |-> parses]

\* the URLs the search provider answers with
URLPool ==
    {URL("a", 0, <<>>, TRUE),
     URL("a", 1, <<"utm_source">>, TRUE),
     URL("b", 0, <<"page", "id">>, TRUE),
     URL("b", 1, <<"id", "ref", "page">>, TRUE),
     URL("c", 1, <<>>, FALSE)}

(***************************************************************************)
(* RunExhaustive and searchWithPagination.                                 *)
(* The queries of the plan are their positions 1..planQueries. The         *)
(* findings of a round and the working context are their lengths; deep     *)
(* mode changes the text of a finding, not whether it is written. The      *)
(* searchers all paginate, so SearchWithPage serves every page.            *)
(***************************************************************************)
MaxPerPage == 2
MaxSearchResults == 3
PreambleLen == 300
ResultTextLen == 300
autoMaxPages == 100
roundHeaderLen == 25

\* maxPages, as a bug would have it: one page more
EffectiveMaxPagesOneMore(maxPages) ==
    IF maxPages = 0 THEN autoMaxPages + 1 ELSE maxPages + 1
\* maxPages of searchWithPagination: 0 means auto
EffectiveMaxPages(maxPages) == IF maxPages = 0 THEN autoMaxPages ELSE maxPages

\* the pages the provider answers with: one result or more
Pages ==
    UNION {[1..n -> URLPool] : n \in 1..MaxPerPage}

\* the results the provider has returned so far in this run
Processed == totalURLsFound + totalDuplicates + newURLs + duplicates

\* a.seenURLs[normalizedURL]
Seen(seen, normalizedURL) == normalizedURL \in seen

\* a.seenURLs[normalizedURL] = true, as a bug would have it: not recorded
MarkSeenForgotten(seen, normalizedURL) == seen
\* a.seenURLs[normalizedURL] = true
MarkSeen(seen, normalizedURL) == seen \cup {normalizedURL}

RECURSIVE ProcessResults(_, _)
RECURSIVE ProcessResultsDuplicatesUncounted(_, _)
\* the loop over the results of one page, as a bug would have it: a
\* duplicate is skipped without being counted
ProcessResultsDuplicatesUncounted(searchResults, st) ==
    IF searchResults = <<>>
    THEN st
    ELSE LET r == Head(searchResults)
             normalizedURL == normalizeURL(r)
         IN  IF Seen(st.seenURLs, normalizedURL)
             THEN ProcessResultsDuplicatesUncounted(Tail(searchResults), st)
             ELSE ProcessResultsDuplicatesUncounted(Tail(searchResults),
                                 [st EXCEPT !.seenURLs = MarkSeen(@, normalizedURL),
                                            !.newURLs = @ + 1,
                                            !.results = @ + ResultTextLen,
                                            !.sources = Append(@, r)])
\* the loop over the results of one page
ProcessResults(searchResults, st) ==
    IF searchResults = <<>>
    THEN st
    ELSE LET r == Head(searchResults)
             normalizedURL == normalizeURL(r)
         IN  IF Seen(st.seenURLs, normalizedURL)
             THEN ProcessResults(Tail(searchResults),
                                 [st EXCEPT !.duplicates = @ + 1])
             ELSE ProcessResults(Tail(searchResults),
                                 [st EXCEPT !.seenURLs = MarkSeen(@, normalizedURL),
                                            !.newURLs = @ + 1,
                                            !.results = @ + ResultTextLen,
                                            !.sources = Append(@, r)])

\* researchContext after the findings of a round are appended
WithRoundResults(context, roundResults) ==
    IF roundResults # 0 THEN context + roundHeaderLen + roundResults ELSE context

NoResult == [Report |-> "", Sources |-> <<>>]

\* the configurations and plans of the runs; MaxPages 0 is auto
RunContextLengths == {500}
MaxLoopsChoices == {1, 2}
ParallelQueryChoices == {1, 2}
MinResultsChoices == {1, 2}
MaxPagesChoices == {0, 1, 2}
PlanSizes == {0, 1, 2, 3}

RunConfigs ==
    /\ rpTokens \in RunContextLengths
    /\ cfgMaxLoops \in MaxLoopsChoices
    /\ cfgParallelQuery \in ParallelQueryChoices
    /\ cfgMinResults \in MinResultsChoices
    /\ cfgMaxPages \in MaxPagesChoices
    /\ planQueries \in PlanSizes

\* the locals of a run that has not started, and the researcher as
\* NewDeepResearcher makes it
RunFresh ==
    /\ sources = <<>>
    /\ seenURLs = {}
    /\ round = 0
    /\ queryIndex = 0
    /\ endIndex = 0
    /\ totalURLsFound = 0
    /\ totalDuplicates = 0
    /\ researchContext = 0
    /\ cancelObserved = FALSE
    /\ runResult = NoResult
    /\ runErr = "none"
    /\ query = 0
    /\ page = 0
    /\ newURLs = 0
    /\ resultCount = 0
    /\ duplicates = 0
    /\ results = 0
    /\ searchErr = FALSE

RunIdle ==
    /\ cfgMaxLoops = 0
    /\ cfgParallelQuery = 0
    /\ cfgMinResults = 0
    /\ cfgMaxPages = 0
    /\ planQueries = 0
    /\ runPc = "idle"
    /\ RunFresh

\* RunExhaustive(topic, plan) is called
RunInit ==
    /\ RunConfigs
    /\ runPc = "start"
    /\ RunFresh

cfgVars == <<cfgMaxLoops, cfgParallelQuery, cfgMinResults, cfgMaxPages, planQueries>>
searchLocals == <<query, page, newURLs, duplicates, results, searchErr, resultCount>>
runData == <<cfgVars, sources, seenURLs, round, queryIndex, endIndex, totalURLsFound,
             totalDuplicates, researchContext, cancelObserved, runResult, runErr,
             searchLocals>>

\* the poll of the cancellation token; a run without a token (RunExhaustive
\* as the command line calls it) never finds it cancelled
CtxDone == ctxErr

\* the reset of the researcher's state at the start of a run
ResetState ==
    /\ sources' = <<>>
    /\ seenURLs' = {}

\* the plan has no search queries: an error, before anything else
RunNoQueries ==
    /\ runPc = "start"
    /\ planQueries = 0
    /\ ResetState
    /\ runResult' = NoResult
    /\ runErr' = "noQueries"
    /\ runPc' = "returned"
    /\ UNCHANGED <<cfgVars, round, queryIndex, endIndex, totalURLsFound,
                   totalDuplicates, researchContext, cancelObserved, searchLocals>>
    /\ UNCHANGED <<cmVars, rpVars, srvVars, notRun>>

\* the initial context is built and the round loop is entered
RunBegin ==
    /\ runPc = "start"
    /\ planQueries # 0
    /\ ResetState
    /\ researchContext' = PreambleLen
    /\ queryIndex' = 0
    /\ totalURLsFound' = 0
    /\ totalDuplicates' = 0
    /\ round' = 0
    /\ runPc' = "loop"
    /\ UNCHANGED <<cfgVars, endIndex, cancelObserved, runResult, runErr, searchLocals>>
    /\ UNCHANGED <<cmVars, rpVars, srvVars, notRun>>

\* the condition of the round loop, as a bug would have it: one round short
RoundConditionOneShort == round + 1 < cfgMaxLoops /\ queryIndex < planQueries
\* the condition of the round loop
RoundCondition == round < cfgMaxLoops /\ queryIndex < planQueries

\* the next batch of queries is taken and searchWithPagination is entered
RoundStart ==
    /\ runPc = "loop"
    /\ RoundCondition
    /\ ~CtxDone
    /\ LET end == IF queryIndex + cfgParallelQuery > planQueries
                  THEN planQueries
                  ELSE queryIndex + cfgParallelQuery
       IN  /\ endIndex' = end
           /\ queryIndex' = end
    /\ query' = queryIndex + 1
    /\ page' = 1
    /\ newURLs' = 0
    /\ resultCount' = 0
    /\ duplicates' = 0
    /\ results' = 0
    /\ searchErr' = FALSE
    /\ runPc' = "search"
    /\ UNCHANGED <<cfgVars, sources, seenURLs, round, totalURLsFound, totalDuplicates,
                   researchContext, cancelObserved, runResult, runErr>>
    /\ UNCHANGED <<cmVars, rpVars, srvVars, notRun>>

\* the round loop is left: its locals are gone
LoopLocalsGone ==
    /\ round' = 0
    /\ queryIndex' = 0
    /\ endIndex' = 0
    /\ query' = 0
    /\ page' = 0
    /\ newURLs' = 0
    /\ resultCount' = 0
    /\ duplicates' = 0
    /\ results' = 0
    /\ searchErr' = FALSE

\* the round loop ends: writeReport(topic, researchContext)
LoopExit ==
    /\ runPc = "loop"
    /\ ~RoundCondition
    /\ runPc' = "report"
    /\ CallWriteReport(researchContext)
    /\ LoopLocalsGone
    /\ UNCHANGED <<cfgVars, sources, seenURLs, totalURLsFound, totalDuplicates,
                   researchContext, cancelObserved, runResult, runErr>>
    /\ UNCHANGED <<cmVars, srvVars, notRun>>

\* the page loop is left, as a bug would have it: searchWithPagination
\* returns without the queries that are left
QueryDoneReturns ==
    /\ query' = 0
    /\ page' = 0
    /\ runPc' = "roundEnd"
\* the page loop of the current query is left: the next query, or the
\* return of searchWithPagination
QueryDone ==
    IF query < endIndex
    THEN /\ query' = query + 1
         /\ page' = 1
         /\ runPc' = "search"
    ELSE /\ query' = 0
         /\ page' = 0
         /\ runPc' = "roundEnd"

\* the request for the current page fails: break
PageError ==
    /\ runPc = "search"
    /\ ~CtxDone
    /\ searchErr' = TRUE
    /\ QueryDone
    /\ UNCHANGED <<cfgVars, sources, seenURLs, round, queryIndex, endIndex,
                   totalURLsFound, totalDuplicates, researchContext, cancelObserved,
                   runResult, runErr, newURLs, duplicates, results, resultCount>>
    /\ UNCHANGED <<cmVars, rpVars, srvVars, notRun>>

\* the current page has no results: break
PageEmpty ==
    /\ runPc = "search"
    /\ ~CtxDone
    /\ searchErr' = FALSE
    /\ QueryDone
    /\ UNCHANGED <<cfgVars, sources, seenURLs, round, queryIndex, endIndex,
                   totalURLsFound, totalDuplicates, researchContext, cancelObserved,
                   runResult, runErr, newURLs, duplicates, results, resultCount>>
    /\ UNCHANGED <<cmVars, rpVars, srvVars, notRun>>

\* the current page has results: each is deduplicated and, when new,
\* formatted and tracked as a source; then the next page, if any
PageResults(searchResults) ==
    /\ runPc = "search"
    /\ ~CtxDone
    /\ Processed + Len(searchResults) <= MaxSearchResults
    /\ LET st == ProcessResults(searchResults,
                                [seenURLs |-> seenURLs, sources |-> sources,
                                 newURLs |-> newURLs, duplicates |-> duplicates,
                                 results |-> results])
       IN  /\ seenURLs' = st.seenURLs
           /\ sources' = st.sources
           /\ newURLs' = st.newURLs
           /\ duplicates' = st.duplicates
           /\ results' = st.results
    /\ resultCount' = resultCount + Len(searchResults)
    /\ searchErr' = FALSE
    /\ IF page + 1 <= EffectiveMaxPages(cfgMaxPages)
       THEN /\ page' = page + 1
            /\ query' = query
            /\ runPc' = "search"
       ELSE QueryDone
    /\ UNCHANGED <<cfgVars, round, queryIndex, endIndex, totalURLsFound,
                   totalDuplicates, researchContext, cancelObserved, runResult, runErr>>
    /\ UNCHANGED <<cmVars, rpVars, srvVars, notRun>>

\* the counts of the round are added to the totals
AddRoundStats ==
    /\ totalURLsFound' = totalURLsFound + newURLs
    /\ totalDuplicates' = totalDuplicates + duplicates
    /\ newURLs' = 0
    /\ resultCount' = 0
    /\ duplicates' = 0
    /\ results' = 0
    /\ searchErr' = FALSE

\* the threshold, as a bug would have it: 60% of the budget
compressionThresholdSixty == MaxInputChars(Budget)
\* int(float64(maxChars) * 0.5)
compressionThreshold == HalfChars(Budget)

\* searchWithPagination has returned; the findings are appended and the
\* context is within the compression threshold
RoundAppend ==
    /\ runPc = "roundEnd"
    /\ ~(WithRoundResults(researchContext, results) > compressionThreshold)
    /\ AddRoundStats
    /\ researchContext' = WithRoundResults(researchContext, results)
    /\ runPc' = "minCheck"
    /\ UNCHANGED <<cfgVars, sources, seenURLs, round, queryIndex, endIndex,
                   cancelObserved, runResult, runErr, query, page>>
    /\ UNCHANGED <<cmVars, rpVars, srvVars, notRun>>

\* the same, and the context is over the threshold:
\* compressContext(researchContext, 0.5)
RoundAppendCompress ==
    /\ runPc = "roundEnd"
    /\ WithRoundResults(researchContext, results) > compressionThreshold
    /\ AddRoundStats
    /\ researchContext' = WithRoundResults(researchContext, results)
    /\ CallCompress("round", WithRoundResults(researchContext, results), 1)
    /\ runPc' = "compressing"
    /\ UNCHANGED <<cfgVars, sources, seenURLs, round, queryIndex, endIndex,
                   cancelObserved, runResult, runErr, query, page>>
    /\ UNCHANGED <<rpVars, srvVars, notRun>>

\* the compression failed: the round goes on with the full context
RoundCompressFailed ==
    /\ runPc = "compressing"
    /\ cmPc = "done"
    /\ cmCaller = "round"
    /\ cmErr
    /\ CompressTaken
    /\ runPc' = "minCheck"
    /\ UNCHANGED <<cfgVars, sources, seenURLs, round, queryIndex, endIndex,
                   totalURLsFound, totalDuplicates, researchContext, cancelObserved,
                   runResult, runErr, searchLocals>>
    /\ UNCHANGED <<rpVars, srvVars, notRun>>

\* the compressed text becomes the context
RoundCompressed ==
    /\ runPc = "compressing"
    /\ cmPc = "done"
    /\ cmCaller = "round"
    /\ ~cmErr
    /\ researchContext' = cmOut
    /\ CompressTaken
    /\ runPc' = "minCheck"
    /\ UNCHANGED <<cfgVars, sources, seenURLs, round, queryIndex, endIndex,
                   totalURLsFound, totalDuplicates, cancelObserved,
                   runResult, runErr, searchLocals>>
    /\ UNCHANGED <<rpVars, srvVars, notRun>>

\* len(a.sources) >= MinResults: break, and writeReport
RoundTargetReached ==
    /\ runPc = "minCheck"
    /\ Len(sources) >= cfgMinResults
    /\ runPc' = "report"
    /\ CallWriteReport(researchContext)
    /\ LoopLocalsGone
    /\ UNCHANGED <<cfgVars, sources, seenURLs, totalURLsFound, totalDuplicates,
                   researchContext, cancelObserved, runResult, runErr>>
    /\ UNCHANGED <<cmVars, srvVars, notRun>>

\* the target is not reached, as a bug would have it: the round is not
\* counted
RoundNextSameRound ==
    /\ runPc = "minCheck"
    /\ ~(Len(sources) >= cfgMinResults)
    /\ round' = round
    /\ runPc' = "loop"
    /\ UNCHANGED <<cfgVars, sources, seenURLs, queryIndex, endIndex,
                   totalURLsFound, totalDuplicates, researchContext, cancelObserved,
                   runResult, runErr, searchLocals>>
    /\ UNCHANGED <<cmVars, rpVars, srvVars, notRun>>
\* the target is not reached: round++
RoundNext ==
    /\ runPc = "minCheck"
    /\ ~(Len(sources) >= cfgMinResults)
    /\ round' = round + 1
    /\ runPc' = "loop"
    /\ UNCHANGED <<cfgVars, sources, seenURLs, queryIndex, endIndex,
                   totalURLsFound, totalDuplicates, researchContext, cancelObserved,
                   runResult, runErr, searchLocals>>
    /\ UNCHANGED <<cmVars, rpVars, srvVars, notRun>>

\* writeReport has returned and its locals are gone
ReportTaken ==
    /\ rpCtx' = 0
    /\ rpCeil' = 0
    /\ rpAttempt' = 0
    /\ rpPc' = "idle"
    /\ rpOut' = "none"
    /\ rpCalls' = 0
    /\ rpChatErr' = "none"
    /\ UNCHANGED rpTokens

\* writeReport returned an error, as a bug would have it: the run returns
\* an empty result without the error
RunReportFailedSilently ==
    /\ runPc = "report"
    /\ rpPc = "returned"
    /\ rpOut = "error"
    /\ runResult' = NoResult
    /\ runErr' = "none"
    /\ runPc' = "returned"
    /\ ReportTaken
    /\ UNCHANGED <<cfgVars, sources, seenURLs, round, queryIndex, endIndex,
                   totalURLsFound, totalDuplicates, researchContext, cancelObserved,
                   searchLocals>>
    /\ UNCHANGED <<cmVars, srvVars, notRun>>
\* writeReport returned an error: the run returns it with an empty result
RunReportFailed ==
    /\ runPc = "report"
    /\ rpPc = "returned"
    /\ rpOut = "error"
    /\ runResult' = NoResult
    /\ runErr' = "report"
    /\ runPc' = "returned"
    /\ ReportTaken
    /\ UNCHANGED <<cfgVars, sources, seenURLs, round, queryIndex, endIndex,
                   totalURLsFound, totalDuplicates, researchContext, cancelObserved,
                   searchLocals>>
    /\ UNCHANGED <<cmVars, srvVars, notRun>>

\* writeReport returned a report: the run returns it with a copy of the sources
RunReportDone ==
    /\ runPc = "report"
    /\ rpPc = "returned"
    /\ rpOut # "error"
    /\ runResult' = [Report |-> IF rpOut = "report" THEN "report" ELSE "",
                     Sources |-> sources]
    /\ runErr' = "none"
    /\ runPc' = "returned"
    /\ ReportTaken
    /\ UNCHANGED <<cfgVars, sources, seenURLs, round, queryIndex, endIndex,
                   totalURLsFound, totalDuplicates, researchContext, cancelObserved,
                   searchLocals>>
    /\ UNCHANGED <<cmVars, srvVars, notRun>>

NextRunExhaustive ==
    \/ RunNoQueries
    \/ RunBegin
    \/ RoundStart
    \/ LoopExit
    \/ PageError
    \/ PageEmpty
    \/ \E searchResults \in Pages : PageResults(searchResults)
    \/ RoundAppend
    \/ RoundAppendCompress
    \/ RoundCompressFailed
    \/ RoundCompressed
    \/ RoundTargetReached
    \/ RoundNext
    \/ RunReportFailed
    \/ RunReportDone

(***************************************************************************)
(* The run under a cancellation token (RunExhaustiveWithContext): the      *)
(* rounds of RunExhaustive, with the token polled before each round and    *)
(* before each page request.                                               *)
(***************************************************************************)
\* after cancellation is observed, as a bug would have it: the round goes on
AfterCancelGoesOn(context) ==
    /\ researchContext' = context
    /\ runPc' = "minCheck"
    /\ totalURLsFound' = totalURLsFound + newURLs
    /\ totalDuplicates' = totalDuplicates + duplicates
    /\ UNCHANGED <<round, queryIndex, endIndex>>
    /\ query' = 0
    /\ page' = 0
    /\ newURLs' = 0
    /\ resultCount' = 0
    /\ duplicates' = 0
    /\ results' = 0
    /\ searchErr' = FALSE
    /\ UNCHANGED rpVars
\* after cancellation is observed: straight to report generation over what
\* was collected
AfterCancel(context) ==
    /\ researchContext' = context
    /\ runPc' = "report"
    /\ totalURLsFound' = totalURLsFound + newURLs
    /\ totalDuplicates' = totalDuplicates + duplicates
    /\ LoopLocalsGone
    /\ CallWriteReport(context)

\* cancellation is observed between rounds
ObserveCancelRound ==
    /\ runPc = "loop"
    /\ RoundCondition
    /\ CtxDone
    /\ cancelObserved' = TRUE
    /\ AfterCancel(researchContext)
    /\ UNCHANGED <<cfgVars, sources, seenURLs, runResult, runErr>>
    /\ UNCHANGED <<cmVars, srvVars, notRun>>

\* cancellation is observed before a page request: the executor returns the
\* findings of the round so far
ObserveCancelPage ==
    /\ runPc = "search"
    /\ CtxDone
    /\ cancelObserved' = TRUE
    /\ AfterCancel(WithRoundResults(researchContext, results))
    /\ UNCHANGED <<cfgVars, sources, seenURLs, runResult, runErr>>
    /\ UNCHANGED <<cmVars, srvVars, notRun>>

(***************************************************************************)
(* Server: handleApprove, handleCancel, executeResearch.                   *)
(* One plan awaits approval; jobResult is empty for a nil Result.          *)
(***************************************************************************)
SrvIdle ==
    /\ jobStatus = "idle"
    /\ jobResult = <<>>
    /\ jobError = ""
    /\ cancelFunc = FALSE
    /\ ctxErr = FALSE
    /\ apPc = "idle"
    /\ hcPc = "idle"
    /\ execPc = "idle"

\* the requests of the server's jobs, after handleResearch's defaults, and
\* the sizes of their plans
JobConfigs ==
    /\ rpTokens \in RunContextLengths
    /\ cfgMaxLoops = 2
    /\ cfgParallelQuery \in ParallelQueryChoices
    /\ cfgMinResults = 2
    /\ cfgMaxPages \in {0, 1}
    /\ planQueries \in {0, 1, 3}

\* createPlan has stored the plan of an exhaustive job
SrvInit ==
    /\ jobStatus = "awaiting_approval"
    /\ jobResult = <<>>
    /\ jobError = ""
    /\ cancelFunc = FALSE
    /\ ctxErr = FALSE
    /\ apPc = "idle"
    /\ hcPc = "idle"
    /\ execPc = "idle"
    /\ JobConfigs
    /\ runPc = "idle"
    /\ RunFresh

\* handleApprove reads the job under the read lock
ApproveRead ==
    /\ apPc = "idle"
    /\ apPc' = IF jobStatus = "awaiting_approval" THEN "setRunning" ELSE "done"
    /\ UNCHANGED <<jobStatus, jobResult, jobError, cancelFunc, ctxErr, hcPc, execPc>>
    /\ UNCHANGED <<cmVars, rpVars, runVars, notRun>>

\* s.currentJob.Status = "running"
ApproveSetRunning ==
    /\ apPc = "setRunning"
    /\ jobStatus' = "running"
    /\ apPc' = "start"
    /\ UNCHANGED <<jobResult, jobError, cancelFunc, ctxErr, hcPc, execPc>>
    /\ UNCHANGED <<cmVars, rpVars, runVars, notRun>>

\* the context is created, its cancel function stored and executeResearch
\* started
ApproveStart ==
    /\ apPc = "start"
    /\ cancelFunc' = TRUE
    /\ ctxErr' = FALSE
    /\ execPc' = "running"
    /\ runPc' = "start"
    /\ apPc' = "done"
    /\ UNCHANGED <<jobStatus, jobResult, jobError, hcPc>>
    /\ UNCHANGED runData
    /\ UNCHANGED <<cmVars, rpVars, notRun>>

\* handleCancel reads the status and the cancel function under the read lock
CancelRead ==
    /\ hcPc = "idle"
    /\ \/ /\ jobStatus = "running"
          /\ cancelFunc
          /\ hcPc' = "cancel"
       \/ /\ jobStatus \in {"awaiting_approval", "planning"}
          /\ hcPc' = "reset"
    /\ UNCHANGED <<jobStatus, jobResult, jobError, cancelFunc, ctxErr, apPc, execPc>>
    /\ UNCHANGED <<cmVars, rpVars, runVars, notRun>>

\* cancelFunc()
CancelFire ==
    /\ hcPc = "cancel"
    /\ ctxErr' = TRUE
    /\ hcPc' = "mark"
    /\ UNCHANGED <<jobStatus, jobResult, jobError, cancelFunc, apPc, execPc>>
    /\ UNCHANGED <<cmVars, rpVars, runVars, notRun>>

\* s.currentJob.Status = "cancelled"
CancelMark ==
    /\ hcPc = "mark"
    /\ jobStatus' = "cancelled"
    /\ hcPc' = "idle"
    /\ UNCHANGED <<jobResult, jobError, cancelFunc, ctxErr, apPc, execPc>>
    /\ UNCHANGED <<cmVars, rpVars, runVars, notRun>>

\* a plan that was not approved is dropped: the job is a new idle job
CancelReset ==
    /\ hcPc = "reset"
    /\ jobStatus' = "idle"
    /\ jobResult' = <<>>
    /\ jobError' = ""
    /\ hcPc' = "idle"
    /\ UNCHANGED <<cancelFunc, ctxErr, apPc, execPc>>
    /\ UNCHANGED <<cmVars, rpVars, runVars, notRun>>

\* the run returned without error
ExecComplete ==
    /\ execPc = "running"
    /\ runPc = "returned"
    /\ runErr = "none"
    /\ jobStatus' = "complete"
    /\ jobResult' = <<runResult>>
    /\ execPc' = "done"
    /\ UNCHANGED <<jobError, cancelFunc, ctxErr, apPc, hcPc>>
    /\ UNCHANGED <<cmVars, rpVars, runVars, notRun>>

\* the run returned an error and ctx.Err() == context.Canceled
ExecCancelled ==
    /\ execPc = "running"
    /\ runPc = "returned"
    /\ runErr # "none"
    /\ ctxErr
    /\ jobStatus' = "complete"
    /\ jobResult' = <<runResult>>
    /\ execPc' = "done"
    /\ UNCHANGED <<jobError, cancelFunc, ctxErr, apPc, hcPc>>
    /\ UNCHANGED <<cmVars, rpVars, runVars, notRun>>

\* the run returned an error and the context is not cancelled: setError
ExecError ==
    /\ execPc = "running"
    /\ runPc = "returned"
    /\ runErr # "none"
    /\ ~ctxErr
    /\ jobStatus' = "error"
    /\ jobError' = "Research failed"
    /\ execPc' = "done"
    /\ UNCHANGED <<jobResult, cancelFunc, ctxErr, apPc, hcPc>>
    /\ UNCHANGED <<cmVars, rpVars, runVars, notRun>>

NextServer ==
    \/ ApproveRead
    \/ ApproveSetRunning
    \/ ApproveStart
    \/ CancelRead
    \/ CancelFire
    \/ CancelMark
    \/ CancelReset
    \/ ExecComplete
    \/ ExecCancelled
    \/ ExecError

(***************************************************************************)
(* normalizeURL on its own: a URL is normalized, and the result again.     *)
(***************************************************************************)
MaxSlashes == 2
MaxParams == 2

\* the queries of the URLs: lists of distinct keys
ParamLists ==
    {ps \in UNION {[1..n -> {KeyOrder[i] : i \in 1..Len(KeyOrder)}] : n \in 0..MaxParams} :
        \A i, j \in 1..Len(ps) : i # j => ps[i] # ps[j]}

NormalizeInputs ==
    {URL(site, n, ps, ok) : site \in {"a", "b"}, n \in 0..MaxSlashes,
                            ps \in ParamLists, ok \in BOOLEAN}

\* the state of searchWithPagination before its first result
NothingSeen ==
    [seenURLs |-> {}, sources |-> <<>>, newURLs |-> 0, duplicates |-> 0,
     results |-> 0]

NuIdle ==
    /\ nuPc = "idle"
    /\ nuURL = URL("", 0, <<>>, TRUE)
    /\ nuOther = URL("", 0, <<>>, TRUE)
    /\ nuOnce = URL("", 0, <<>>, TRUE)
    /\ nuTwice = URL("", 0, <<>>, TRUE)
    /\ nuPair = NothingSeen

NuInit ==
    /\ nuPc = "start"
    /\ nuURL \in NormalizeInputs
    /\ nuOther \in NormalizeInputs
    /\ nuOnce = URL("", 0, <<>>, TRUE)
    /\ nuTwice = URL("", 0, <<>>, TRUE)
    /\ nuPair = NothingSeen

\* normalizeURL on the URL and on its result; the loop over the results of
\* a page that holds the URL and the other one
Normalize ==
    /\ nuPc = "start"
    /\ nuOnce' = normalizeURL(nuURL)
    /\ nuTwice' = normalizeURL(normalizeURL(nuURL))
    /\ nuPair' = ProcessResults(<<nuURL, nuOther>>, NothingSeen)
    /\ nuPc' = "done"
    /\ UNCHANGED <<nuURL, nuOther>>
    /\ UNCHANGED notNu

(***************************************************************************)
(* Progress events: onProgress broadcasts to the channels of the           *)
(* registered clients; handleProgress registers a channel and streams      *)
(* from it. An event is its phase.                                         *)
(***************************************************************************)
MaxClients == 2
MaxEvents == 11
sseBufferSize == 10

Clients == 1..MaxClients
terminalPhases == {"complete", "error"}

NoBroadcast == [event |-> "none", left |-> {}]

SseIdle ==
    /\ sseClients = {}
    /\ sseCh = [c \in Clients |-> <<>>]
    /\ ssePc = [c \in Clients |-> "none"]
    /\ sseGotTerminal = [c \in Clients |-> FALSE]
    /\ sseEmitted = 0
    /\ sseTerminal = FALSE
    /\ sseAtTerminal = {}
    /\ sseBroadcast = NoBroadcast
    /\ sseClosed = {}
    /\ sseSentOnClosed = FALSE

\* s.sseMu is held from the start of a broadcast to its end; the other
\* critical sections are single steps
sseMuHeld == sseBroadcast # NoBroadcast

\* the non-blocking send of onProgress: the event is skipped when the
\* buffer of the channel is full
TrySend(ch, event) == IF Len(ch) < sseBufferSize THEN Append(ch, event) ELSE ch

\* onProgress(event): the progress of the job is set, s.sseMu is taken and
\* the loop over the registered channels begins
OnProgress(event) ==
    /\ sseEmitted < MaxEvents
    /\ ~sseTerminal
    /\ ~sseMuHeld
    /\ sseBroadcast' = [event |-> event, left |-> sseClients]
    /\ sseEmitted' = sseEmitted + 1
    /\ sseTerminal' = (event \in terminalPhases)
    /\ UNCHANGED <<sseClients, sseCh, ssePc, sseGotTerminal, sseAtTerminal, sseClosed,
                   sseSentOnClosed>>
    /\ UNCHANGED notSse

\* one turn of the loop: the event goes to channel c if it has room; a send
\* on a closed channel panics
BroadcastSend(c) ==
    /\ c \in sseBroadcast.left
    /\ sseBroadcast' = [sseBroadcast EXCEPT !.left = @ \ {c}]
    /\ IF c \in sseClosed
       THEN sseSentOnClosed' = TRUE /\ UNCHANGED sseCh
       ELSE /\ sseCh' = [sseCh EXCEPT ![c] = TrySend(@, sseBroadcast.event)]
            /\ UNCHANGED sseSentOnClosed
    /\ UNCHANGED <<sseClients, ssePc, sseGotTerminal, sseEmitted, sseTerminal,
                   sseAtTerminal, sseClosed>>
    /\ UNCHANGED notSse

\* the loop is over: s.sseMu is released
BroadcastDone ==
    /\ sseMuHeld
    /\ sseBroadcast.left = {}
    /\ sseBroadcast' = NoBroadcast
    /\ sseAtTerminal' = IF sseBroadcast.event \in terminalPhases
                        THEN sseClients ELSE sseAtTerminal
    /\ UNCHANGED <<sseClients, sseCh, ssePc, sseGotTerminal, sseEmitted, sseTerminal,
                   sseClosed, sseSentOnClosed>>
    /\ UNCHANGED notSse

\* handleProgress: the channel is made and, under s.sseMu, registered, and
\* the current progress is written
SseRegister(c) ==
    /\ ssePc[c] = "none"
    /\ ~sseMuHeld
    /\ sseClients' = sseClients \cup {c}
    /\ sseCh' = [sseCh EXCEPT ![c] = <<>>]
    /\ ssePc' = [ssePc EXCEPT ![c] = "streaming"]
    /\ sseGotTerminal' = [sseGotTerminal EXCEPT ![c] = sseTerminal]
    /\ UNCHANGED <<sseEmitted, sseTerminal, sseAtTerminal, sseBroadcast, sseClosed,
                   sseSentOnClosed>>
    /\ UNCHANGED notSse

\* an event is taken from the channel and written; a terminal event ends
\* the stream
SseReceive(c) ==
    /\ ssePc[c] = "streaming"
    /\ sseCh[c] # <<>>
    /\ sseCh' = [sseCh EXCEPT ![c] = Tail(@)]
    /\ IF Head(sseCh[c]) \in terminalPhases
       THEN /\ sseGotTerminal' = [sseGotTerminal EXCEPT ![c] = TRUE]
            /\ ssePc' = [ssePc EXCEPT ![c] = "leaving"]
       ELSE UNCHANGED <<ssePc, sseGotTerminal>>
    /\ UNCHANGED <<sseClients, sseEmitted, sseTerminal, sseAtTerminal, sseBroadcast,
                   sseClosed, sseSentOnClosed>>
    /\ UNCHANGED notSse

\* the request of the client is done, as a bug would have it: the deferred
\* function closes the channel before it is removed from the client set
SseDisconnectClosesFirst(c) ==
    /\ ssePc[c] = "streaming"
    /\ sseClosed' = sseClosed \cup {c}
    /\ ssePc' = [ssePc EXCEPT ![c] = "leaving"]
    /\ UNCHANGED <<sseClients, sseCh, sseGotTerminal, sseEmitted, sseTerminal,
                   sseAtTerminal, sseBroadcast, sseSentOnClosed>>
    /\ UNCHANGED notSse
\* the request of the client is done: the stream ends and the deferred
\* function, once it has s.sseMu, removes the channel from the client set
SseDisconnect(c) ==
    /\ ssePc[c] = "streaming"
    /\ ~sseMuHeld
    /\ sseClients' = sseClients \ {c}
    /\ ssePc' = [ssePc EXCEPT ![c] = "removed"]
    /\ UNCHANGED <<sseCh, sseGotTerminal, sseEmitted, sseTerminal, sseAtTerminal,
                   sseBroadcast, sseClosed, sseSentOnClosed>>
    /\ UNCHANGED notSse

\* the deferred function after a terminal event: under s.sseMu the channel
\* is removed from the client set
SseRemove(c) ==
    /\ ssePc[c] = "leaving"
    /\ ~sseMuHeld
    /\ sseClients' = sseClients \ {c}
    /\ ssePc' = [ssePc EXCEPT ![c] = "removed"]
    /\ UNCHANGED <<sseCh, sseGotTerminal, sseEmitted, sseTerminal, sseAtTerminal,
                   sseBroadcast, sseClosed, sseSentOnClosed>>
    /\ UNCHANGED notSse

\* the deferred function, after the lock is released: close(ch)
SseClose(c) ==
    /\ ssePc[c] = "removed"
    /\ sseClosed' = sseClosed \cup {c}
    /\ sseCh' = [sseCh EXCEPT ![c] = <<>>]
    /\ ssePc' = [ssePc EXCEPT ![c] = "gone"]
    /\ UNCHANGED <<sseClients, sseGotTerminal, sseEmitted, sseTerminal, sseAtTerminal,
                   sseBroadcast, sseSentOnClosed>>
    /\ UNCHANGED notSse

NextProgress ==
    \/ \E event \in {"searching", "complete", "error"} : OnProgress(event)
    \/ \E c \in Clients : BroadcastSend(c)
    \/ BroadcastDone
    \/ \E c \in Clients : SseRegister(c)
    \/ \E c \in Clients : SseReceive(c)
    \/ \E c \in Clients : SseDisconnect(c)
    \/ \E c \in Clients : SseRemove(c)
    \/ \E c \in Clients : SseClose(c)

(***************************************************************************)
(* CreatePlanExhaustive: the plan is parsed from the first response, and   *)
(* its queries are expanded with what generateQueryExpansions returns.     *)
(* The queries of the returned plan are modelled as their set.             *)
(***************************************************************************)
NoExpansion == [Synonyms |-> <<>>, Platforms |-> <<>>]

PlanExpansions ==
    {[Synonyms |-> sy, Platforms |-> pl] : sy \in SynonymMaps, pl \in FewPlatforms}

CpIdle ==
    /\ cpSeeds = <<>>
    /\ cpExpansion = "none"
    /\ cpQueries = {}
    /\ cpErr = FALSE
    /\ cpPc = "idle"

CpInit ==
    /\ cpSeeds \in SeedLists \cup {<<>>}
    /\ cpExpansion = "none"
    /\ cpQueries = {}
    /\ cpErr = FALSE
    /\ cpPc = "call"

\* the planning request fails or its response is not a plan: the empty
\* plan and an error are returned
PlanFailed ==
    /\ cpPc = "call"
    /\ cpQueries' = {}
    /\ cpErr' = TRUE
    /\ cpPc' = "returned"
    /\ UNCHANGED <<cpSeeds, cpExpansion>>
    /\ UNCHANGED notCp

\* the plan has no search queries: it is returned as parsed
PlanWithoutQueries ==
    /\ cpPc = "call"
    /\ Len(cpSeeds) = 0
    /\ cpQueries' = {}
    /\ cpPc' = "returned"
    /\ UNCHANGED <<cpSeeds, cpExpansion, cpErr>>
    /\ UNCHANGED notCp

\* generateQueryExpansions returns an error (the request failed): the plan
\* keeps its queries
ExpansionRequestFailed ==
    /\ cpPc = "call"
    /\ Len(cpSeeds) > 0
    /\ cpExpansion' = "failed"
    /\ cpQueries' = Elems(cpSeeds)
    /\ cpPc' = "returned"
    /\ UNCHANGED <<cpSeeds, cpErr>>
    /\ UNCHANGED notCp

\* the expansion response is not valid JSON: generateQueryExpansions
\* returns the empty expansion without error, and the queries are expanded
\* with it
ExpansionUnparseable ==
    /\ cpPc = "call"
    /\ Len(cpSeeds) > 0
    /\ cpExpansion' = "unparseable"
    /\ cpQueries' \in expandQueriesWithLLM(cpSeeds, NoExpansion)
    /\ cpPc' = "returned"
    /\ UNCHANGED <<cpSeeds, cpErr>>
    /\ UNCHANGED notCp

\* the expansion response is parsed
ExpansionParsed(expansion) ==
    /\ cpPc = "call"
    /\ Len(cpSeeds) > 0
    /\ cpExpansion' = "parsed"
    /\ cpQueries' \in expandQueriesWithLLM(cpSeeds, expansion)
    /\ cpPc' = "returned"
    /\ UNCHANGED <<cpSeeds, cpErr>>
    /\ UNCHANGED notCp

NextCreatePlan ==
    \/ PlanFailed
    \/ PlanWithoutQueries
    \/ ExpansionRequestFailed
    \/ ExpansionUnparseable
    \/ \E expansion \in PlanExpansions : ExpansionParsed(expansion)

(***************************************************************************)
(* The page loop of searchWithPagination for one query, up to the safety   *)
(* limit of auto-pagination. What a page holds is left out: a request is   *)
(* answered with an error, with no results or with results.                *)
(***************************************************************************)
PgIdle ==
    /\ pgMaxPages = 0
    /\ pgPage = 0
    /\ pgRequested = <<>>
    /\ pgAnswer = "none"
    /\ pgPc = "idle"

\* for page := 1
PgInit ==
    /\ pgMaxPages \in {0, 1, 2, 3}
    /\ pgPage = 1
    /\ pgRequested = <<>>
    /\ pgAnswer = "none"
    /\ pgPc = "loop"

\* SearchWithPage(query, page) is called
PgRequest(answer) ==
    /\ pgPc = "loop"
    /\ pgPage <= EffectiveMaxPages(pgMaxPages)
    /\ pgRequested' = Append(pgRequested, pgPage)
    /\ pgAnswer' = answer
    /\ UNCHANGED pgMaxPages
    /\ UNCHANGED notPg

\* the request fails: break
PgPageError ==
    /\ PgRequest("error")
    /\ pgPc' = "done"
    /\ UNCHANGED pgPage

\* the page has no results: break
PgPageEmpty ==
    /\ PgRequest("empty")
    /\ pgPc' = "done"
    /\ UNCHANGED pgPage

\* the page has results: they are processed, then page++
PgPageResults ==
    /\ PgRequest("results")
    /\ pgPage' = pgPage + 1
    /\ UNCHANGED pgPc

\* page <= maxPages is false: the loop ends
PgLoopEnd ==
    /\ pgPc = "loop"
    /\ ~(pgPage <= EffectiveMaxPages(pgMaxPages))
    /\ pgPc' = "done"
    /\ UNCHANGED <<pgMaxPages, pgPage, pgRequested, pgAnswer>>
    /\ UNCHANGED notPg

NextPaginate ==
    \/ PgPageError
    \/ PgPageEmpty
    \/ PgPageResults
    \/ PgLoopEnd

(***************************************************************************)
(* The request handlers handleResearch (with createPlan), handleApprove,   *)
(* handleRevise and handleCancel running concurrently, one goroutine per   *)
(* request. What a run does is left out: an executeResearch goroutine is   *)
(* started and, later, ends.                                               *)
(***************************************************************************)
MaxRequests == 4

Requests == 1..MaxRequests
inProgress == {"planning", "running", "awaiting_approval"}
\* an executeResearch goroutine: the approve request that started it, the
\* researcher it runs on and the job whose plan it executes
Runs == [by : Requests, researcher : Requests, job : Requests]
NothingRead == [status |-> "", plan |-> FALSE, researcher |-> 0, job |-> 0, cancel |-> FALSE]

\* no request has arrived: s.currentJob is the idle job of main
HIdle ==
    /\ hStatus = "idle"
    /\ hJob = 0
    /\ hPlan = FALSE
    /\ hResearcher = 0
    /\ hKind = [h \in Requests |-> "none"]
    /\ hPc = [h \in Requests |-> "new"]
    /\ hRead = [h \in Requests |-> NothingRead]
    /\ hReply = [h \in Requests |-> "none"]
    /\ hRuns = {}
    /\ hEnded = {}
    /\ hCancelFunc = FALSE
    /\ hOutcomes = {}

\* the step of request h to position pc with reply
HStep(h, pc, reply) ==
    /\ hPc' = [hPc EXCEPT ![h] = pc]
    /\ hReply' = [hReply EXCEPT ![h] = reply]
    /\ UNCHANGED notH

\* request h arrives at the handler of kind and reads the job under the
\* read lock
HArrive(h, kind, read, pc) ==
    /\ hKind' = [hKind EXCEPT ![h] = kind]
    /\ hRead' = [hRead EXCEPT ![h] = read]
    /\ HStep(h, pc, "none")
    /\ UNCHANGED <<hStatus, hJob, hPlan, hResearcher, hRuns, hEnded, hCancelFunc, hOutcomes>>

\* request h replies without changing the job
HReply(h, reply) ==
    /\ HStep(h, "done", reply)
    /\ UNCHANGED <<hStatus, hJob, hPlan, hResearcher, hKind, hRead, hRuns, hEnded,
                   hCancelFunc, hOutcomes>>

\* request h sets the status, and the plan, of s.currentJob under the lock
HSetStatus(h, status, plan, pc, reply) ==
    /\ hStatus' = status
    /\ hPlan' = plan
    /\ HStep(h, pc, reply)
    /\ UNCHANGED <<hJob, hResearcher, hKind, hRead, hRuns, hEnded, hCancelFunc, hOutcomes>>

\* handleResearch: status := s.currentJob.Status under the read lock
ResearchRead(h) ==
    /\ hPc[h] = "new"
    /\ HArrive(h, "research", [NothingRead EXCEPT !.status = hStatus], "checked")

\* the status read is planning, running or awaiting_approval: 409
ResearchConflict(h) ==
    /\ hPc[h] = "checked"
    /\ hRead[h].status \in inProgress
    /\ HReply(h, "conflict")

\* the body is not JSON or has no topic: 400
ResearchInvalid(h) ==
    /\ hPc[h] = "checked"
    /\ hRead[h].status \notin inProgress
    /\ HReply(h, "badRequest")

\* s.currentJob = job, a new job in status planning, under the lock
ResearchCreateJob(h) ==
    /\ hPc[h] = "checked"
    /\ hRead[h].status \notin inProgress
    /\ hJob' = h
    /\ hStatus' = "planning"
    /\ hPlan' = FALSE
    /\ HStep(h, "createPlan", "none")
    /\ UNCHANGED <<hResearcher, hKind, hRead, hRuns, hEnded, hCancelFunc, hOutcomes>>

\* createPlan: s.researcher = researcher under the lock
PlanStoreResearcher(h) ==
    /\ hPc[h] = "createPlan"
    /\ hResearcher' = h
    /\ HStep(h, "planning", "none")
    /\ UNCHANGED <<hStatus, hJob, hPlan, hKind, hRead, hRuns, hEnded, hCancelFunc, hOutcomes>>

\* the plan cannot be made: setError; handleResearch replies with the job
PlanSetError(h) ==
    /\ hPc[h] = "planning"
    /\ HSetStatus(h, "error", hPlan, "done", "job")

\* the plan is stored in s.currentJob, which awaits approval
PlanStored(h) ==
    /\ hPc[h] = "planning"
    /\ HSetStatus(h, "awaiting_approval", TRUE, "done", "job")

\* handleApprove: status, plan and researcher are read under the read lock
ApprovalRead(h) ==
    /\ hPc[h] = "new"
    /\ HArrive(h, "approve",
            [status |-> hStatus, plan |-> hPlan, researcher |-> hResearcher,
             job |-> hJob, cancel |-> FALSE],
            "read")

\* no plan awaits approval (400), or the plan or the researcher is nil (500)
ApprovalRejected(h) ==
    /\ hPc[h] = "read"
    /\ \/ hRead[h].status # "awaiting_approval"
       \/ ~hRead[h].plan
       \/ hRead[h].researcher = 0
    /\ HReply(h, IF hRead[h].status # "awaiting_approval"
                 THEN "badRequest" ELSE "serverError")

\* s.currentJob.Status = "running" under the lock
ApprovalSetRunning(h) ==
    /\ hPc[h] = "read"
    /\ hRead[h].status = "awaiting_approval"
    /\ hRead[h].plan
    /\ hRead[h].researcher # 0
    /\ HSetStatus(h, "running", hPlan, "start", "none")

\* the cancel function is stored and go s.executeResearch(ctx, researcher,
\* ...) is started, on the researcher and with the plan that were read
ApprovalStart(h) ==
    /\ hPc[h] = "start"
    /\ hCancelFunc' = TRUE
    /\ hRuns' = hRuns \cup {[by |-> h, researcher |-> hRead[h].researcher,
                              job |-> hRead[h].job]}
    /\ HStep(h, "done", "running")
    /\ UNCHANGED <<hStatus, hJob, hPlan, hResearcher, hKind, hRead, hEnded, hOutcomes>>

\* handleRevise: the status is read under the read lock
ReviseRead(h) ==
    /\ hPc[h] = "new"
    /\ HArrive(h, "revise", [NothingRead EXCEPT !.status = hStatus], "reviseRead")

\* no plan awaits revision, or the feedback is not JSON: 400
ReviseRejected(h) ==
    /\ hPc[h] = "reviseRead"
    /\ HReply(h, "badRequest")

\* the status goes back to planning and the plan is dropped
RevisePlanning(h) ==
    /\ hPc[h] = "reviseRead"
    /\ hRead[h].status = "awaiting_approval"
    /\ HSetStatus(h, "planning", FALSE, "feedback", "none")

\* createPlanWithFeedback: s.researcher is nil: setError
ReviseNoResearcher(h) ==
    /\ hPc[h] = "feedback"
    /\ hResearcher = 0
    /\ HSetStatus(h, "error", hPlan, "done", "job")

\* createPlanWithFeedback asks the researcher for a new plan
ReviseStart(h) ==
    /\ hPc[h] = "feedback"
    /\ hResearcher # 0
    /\ HStep(h, "revising", "none")
    /\ UNCHANGED <<hStatus, hJob, hPlan, hResearcher, hKind, hRead, hRuns, hEnded,
                   hCancelFunc, hOutcomes>>

\* the plan cannot be revised: setError
ReviseFailed(h) ==
    /\ hPc[h] = "revising"
    /\ HSetStatus(h, "error", hPlan, "done", "job")

\* the revised plan is stored in s.currentJob, which awaits approval
RevisePlanStored(h) ==
    /\ hPc[h] = "revising"
    /\ HSetStatus(h, "awaiting_approval", TRUE, "done", "job")

\* handleCancel: the status and the cancel function are read under the
\* read lock
CancellationRead(h) ==
    /\ hPc[h] = "new"
    /\ HArrive(h, "cancel",
            [NothingRead EXCEPT !.status = hStatus, !.cancel = hCancelFunc],
            "cancelRead")

\* the job was running: cancelFunc(); what the run does on it is left out
CancellationFire(h) ==
    /\ hPc[h] = "cancelRead"
    /\ hRead[h].status = "running"
    /\ hRead[h].cancel
    /\ HStep(h, "mark", "none")
    /\ UNCHANGED <<hStatus, hJob, hPlan, hResearcher, hKind, hRead, hRuns, hEnded,
                   hCancelFunc, hOutcomes>>

\* s.currentJob.Status = "cancelled" under the lock
CancellationMark(h) ==
    /\ hPc[h] = "mark"
    /\ HSetStatus(h, "cancelled", hPlan, "done", "cancelling")

\* the job was planning or awaiting approval: s.currentJob is a new idle
\* job and s.researcher is nil
CancellationReset(h) ==
    /\ hPc[h] = "cancelRead"
    /\ ~(hRead[h].status = "running" /\ hRead[h].cancel)
    /\ hRead[h].status \in {"awaiting_approval", "planning"}
    /\ hJob' = 0
    /\ hStatus' = "idle"
    /\ hPlan' = FALSE
    /\ hResearcher' = 0
    /\ HStep(h, "done", "cancelled")
    /\ UNCHANGED <<hKind, hRead, hRuns, hEnded, hCancelFunc, hOutcomes>>

\* nothing to cancel: 400
CancellationNothing(h) ==
    /\ hPc[h] = "cancelRead"
    /\ ~(hRead[h].status = "running" /\ hRead[h].cancel)
    /\ hRead[h].status \notin {"awaiting_approval", "planning"}
    /\ HReply(h, "badRequest")

\* an executeResearch goroutine ends: the status of s.currentJob becomes
\* complete, with the Result, or, by setError, error, with the Error
ExecutionEnds(run) ==
    /\ run \in hRuns \ hEnded
    /\ hEnded' = hEnded \cup {run}
    /\ hStatus' \in {"complete", "error"}
    /\ hOutcomes' = hOutcomes \cup {[of |-> run.job, into |-> hJob]}
    /\ UNCHANGED <<hJob, hPlan, hResearcher, hKind, hPc, hRead, hReply, hRuns, hCancelFunc>>
    /\ UNCHANGED notH

NextHandlers ==
    \/ \E h \in Requests : ResearchRead(h)
    \/ \E h \in Requests : ResearchConflict(h)
    \/ \E h \in Requests : ResearchInvalid(h)
    \/ \E h \in Requests : ResearchCreateJob(h)
    \/ \E h \in Requests : PlanStoreResearcher(h)
    \/ \E h \in Requests : PlanSetError(h)
    \/ \E h \in Requests : PlanStored(h)
    \/ \E h \in Requests : ApprovalRead(h)
    \/ \E h \in Requests : ApprovalRejected(h)
    \/ \E h \in Requests : ApprovalSetRunning(h)
    \/ \E h \in Requests : ApprovalStart(h)
    \/ \E h \in Requests : ReviseRead(h)
    \/ \E h \in Requests : ReviseRejected(h)
    \/ \E h \in Requests : RevisePlanning(h)
    \/ \E h \in Requests : ReviseNoResearcher(h)
    \/ \E h \in Requests : ReviseStart(h)
    \/ \E h \in Requests : ReviseFailed(h)
    \/ \E h \in Requests : RevisePlanStored(h)
    \/ \E h \in Requests : CancellationRead(h)
    \/ \E h \in Requests : CancellationFire(h)
    \/ \E h \in Requests : CancellationMark(h)
    \/ \E h \in Requests : CancellationReset(h)
    \/ \E h \in Requests : CancellationNothing(h)
    \/ \E run \in Runs : ExecutionEnds(run)

(***************************************************************************)
(* Run, the simple mode: rounds of decide, parallelSearch and summarize,   *)
(* then writeReport. The calls Run(r) are made on one researcher, one      *)
(* after another or, as two approvals of one plan start them, at once.     *)
(* A source stands for the call that collected it.                         *)
(***************************************************************************)
MaxSimpleRuns == 2

SimpleRuns == 1..MaxSimpleRuns
SimpleMaxLoops == {1, 2, 3}
NoSimpleResult == [report |-> FALSE, sources |-> {}]
NotCalled ==
    [pc |-> "idle", i |-> 0, decides |-> 0, searches |-> 0, reports |-> 0,
     stop |-> "none", err |-> "none", result |-> NoSimpleResult]

SrIdle ==
    /\ srMaxLoops = 0
    /\ srSources = {}
    /\ srRun = [r \in SimpleRuns |-> NotCalled]

\* NewDeepResearcher(config): no source yet
SrInit ==
    /\ srMaxLoops \in SimpleMaxLoops
    /\ srSources = {}
    /\ srRun = [r \in SimpleRuns |-> NotCalled]

\* call r goes on with its locals changed to locals
SrStep(r, locals) ==
    /\ srRun' = [srRun EXCEPT ![r] = locals]
    /\ UNCHANGED srMaxLoops
    /\ UNCHANGED notSr

\* Run(topic, plan): the context is built and a.sources is reset
SimpleRunStart(r) ==
    /\ srRun[r].pc = "idle"
    /\ srSources' = {}
    /\ SrStep(r, [srRun[r] EXCEPT !.pc = "loop"])

\* i < MaxLoops fails: the loop ends
SimpleLoopExhausted(r) ==
    /\ srRun[r].pc = "loop"
    /\ ~(srRun[r].i < srMaxLoops)
    /\ SrStep(r, [srRun[r] EXCEPT !.pc = "report", !.stop = "exhausted"])
    /\ UNCHANGED srSources

\* decide fails, as a bug would have it: the loop is left as by a break and
\* the report is written
DecideFailedBreaks(r) ==
    /\ srRun[r].pc = "loop"
    /\ srRun[r].i < srMaxLoops
    /\ SrStep(r, [srRun[r] EXCEPT !.pc = "report", !.decides = @ + 1, !.err = "decision"])
    /\ UNCHANGED srSources
\* decide fails: the capability's error or a response that is not the JSON
\* of a decision; Run returns ResearchResult{} and the error
DecideFailed(r) ==
    /\ srRun[r].pc = "loop"
    /\ srRun[r].i < srMaxLoops
    /\ SrStep(r, [srRun[r] EXCEPT !.pc = "returned", !.decides = @ + 1,
                                   !.err = "decision", !.result = NoSimpleResult])
    /\ UNCHANGED srSources

\* decision.FinalAnswer, as a bug would have it: the queries are searched
DecideFinalSearches(r) ==
    /\ srRun[r].pc = "loop"
    /\ srRun[r].i < srMaxLoops
    /\ SrStep(r, [srRun[r] EXCEPT !.pc = "search", !.decides = @ + 1, !.stop = "final"])
    /\ UNCHANGED srSources
\* decision.FinalAnswer: break
DecideFinal(r) ==
    /\ srRun[r].pc = "loop"
    /\ srRun[r].i < srMaxLoops
    /\ SrStep(r, [srRun[r] EXCEPT !.pc = "report", !.decides = @ + 1, !.stop = "final"])
    /\ UNCHANGED srSources

\* len(decision.Queries) == 0 and not final: break
DecideNoQueries(r) ==
    /\ srRun[r].pc = "loop"
    /\ srRun[r].i < srMaxLoops
    /\ SrStep(r, [srRun[r] EXCEPT !.pc = "report", !.decides = @ + 1, !.stop = "noQueries"])
    /\ UNCHANGED srSources

\* the decision has queries and is not final
DecideQueries(r) ==
    /\ srRun[r].pc = "loop"
    /\ srRun[r].i < srMaxLoops
    /\ SrStep(r, [srRun[r] EXCEPT !.pc = "search", !.decides = @ + 1])
    /\ UNCHANGED srSources

\* parallelSearch(decision.Queries): sources are appended to a.sources, or
\* none is
SimpleSearch(r) ==
    /\ srRun[r].pc = "search"
    /\ srSources' \in {srSources, srSources \cup {r}}
    /\ SrStep(r, [srRun[r] EXCEPT !.pc = "summarize", !.searches = @ + 1])

\* summarize fails: Run returns ResearchResult{} and the error
SummarizeFailed(r) ==
    /\ srRun[r].pc = "summarize"
    /\ SrStep(r, [srRun[r] EXCEPT !.pc = "returned", !.err = "summarize",
                                   !.result = NoSimpleResult])
    /\ UNCHANGED srSources

\* the findings of the round are appended to the context; i++
SummarizeOk(r) ==
    /\ srRun[r].pc = "summarize"
    /\ SrStep(r, [srRun[r] EXCEPT !.pc = "loop", !.i = @ + 1])
    /\ UNCHANGED srSources

\* writeReport fails: Run returns ResearchResult{} and the error
SimpleReportFailed(r) ==
    /\ srRun[r].pc = "report"
    /\ SrStep(r, [srRun[r] EXCEPT !.pc = "returned", !.reports = @ + 1,
                                   !.err = "report", !.result = NoSimpleResult])
    /\ UNCHANGED srSources

\* Run returns ResearchResult{Report: report, Sources: a.sources}
SimpleReportOk(r) ==
    /\ srRun[r].pc = "report"
    /\ SrStep(r, [srRun[r] EXCEPT !.pc = "returned", !.reports = @ + 1,
                                   !.result = [report |-> TRUE, sources |-> srSources]])
    /\ UNCHANGED srSources

NextSimpleRun ==
    \/ \E r \in SimpleRuns : SimpleRunStart(r)
    \/ \E r \in SimpleRuns : SimpleLoopExhausted(r)
    \/ \E r \in SimpleRuns : DecideFailed(r)
    \/ \E r \in SimpleRuns : DecideFinal(r)
    \/ \E r \in SimpleRuns : DecideNoQueries(r)
    \/ \E r \in SimpleRuns : DecideQueries(r)
    \/ \E r \in SimpleRuns : SimpleSearch(r)
    \/ \E r \in SimpleRuns : SummarizeFailed(r)
    \/ \E r \in SimpleRuns : SummarizeOk(r)
    \/ \E r \in SimpleRuns : SimpleReportFailed(r)
    \/ \E r \in SimpleRuns : SimpleReportOk(r)

\* every function checked on its own is not called
PureIdle == NuIdle /\ SseIdle /\ CpIdle /\ PgIdle /\ HIdle /\ SrIdle

\* nothing of the researcher or the server is running
CoreIdle ==
    ChunkIdle /\ ExpIdle /\ ParIdle /\ CmIdle /\ RpIdle /\ RunIdle /\ SrvIdle

(***************************************************************************)
(* Specifications                                                          *)
(***************************************************************************)
InitChunk == ChunkInit /\ PureIdle /\ RunIdle /\ SrvIdle /\ ExpIdle /\ ParIdle /\ CmIdle /\ RpIdle
NextChunk == Split
SpecChunk == InitChunk /\ [][NextChunk]_vars

InitExpand == ExpInit /\ PureIdle /\ RunIdle /\ SrvIdle /\ ChunkIdle /\ ParIdle /\ CmIdle /\ RpIdle
NextExpand == Expand
SpecExpand == InitExpand /\ [][NextExpand]_vars

InitPar == ParInit /\ PureIdle /\ RunIdle /\ SrvIdle /\ ChunkIdle /\ ExpIdle /\ CmIdle /\ RpIdle
NextPar ==
    \/ \E t \in Tasks : Acquire(t)
    \/ \E t \in Tasks : SearchNothing(t)
    \/ \E t \in Tasks : SearchResults(t)
    \/ \E t \in Tasks : SkipItem(t)
    \/ \E t \in Tasks : LockMu(t)
    \/ \E t \in Tasks : AppendSource(t)
    \/ \E t \in Tasks : ItemsDone(t)
    \/ \E t \in Tasks : SendResult(t)
    \/ \E t \in Tasks : Release(t)
    \/ ParReturn
    \/ RunReturnSources
SpecPar == InitPar /\ [][NextPar]_vars
\* every capability call returns and the scheduler runs every goroutine
\* that can take a step
SpecParFair == SpecPar /\ WF_vars(NextPar)

InitReport == RpInit /\ PureIdle /\ RunIdle /\ SrvIdle /\ CmIdle /\ ChunkIdle /\ ExpIdle /\ ParIdle
NextReport == NextWriteReport \/ NextCompress
SpecReport == InitReport /\ [][NextReport]_vars
\* every call of the generation capability returns and every goroutine that
\* can take a step takes it
SpecReportFair == SpecReport /\ WF_vars(NextReport)

RpConfigured ==
    /\ rpCtx = 0
    /\ rpCeil = 0
    /\ rpAttempt = 0
    /\ rpPc = "idle"
    /\ rpOut = "none"
    /\ rpCalls = 0
    /\ rpChatErr = "none"

InitCompress == CmInit /\ RpConfigured /\ PureIdle /\ RunIdle /\ SrvIdle /\ ChunkIdle /\ ExpIdle /\ ParIdle
SpecCompress == InitCompress /\ [][NextCompress]_vars

InitExhaustive == RunInit /\ PureIdle /\ SrvIdle /\ RpConfigured /\ CmIdle /\ ChunkIdle /\ ExpIdle /\ ParIdle
NextExhaustive == NextRunExhaustive \/ NextWriteReport \/ NextCompress
SpecExhaustive == InitExhaustive /\ [][NextExhaustive]_vars

InitServer == SrvInit /\ PureIdle /\ RpConfigured /\ CmIdle /\ ChunkIdle /\ ExpIdle /\ ParIdle
NextServerRun ==
    \/ NextServer
    \/ NextRunExhaustive
    \/ ObserveCancelRound
    \/ ObserveCancelPage
    \/ NextWriteReport
    \/ NextCompress
SpecServer == InitServer /\ [][NextServerRun]_vars
\* every goroutine that can take a step is scheduled in the end
SpecServerFair == SpecServer /\ WF_vars(NextServerRun)

InitNormalize == NuInit /\ SseIdle /\ CpIdle /\ PgIdle /\ HIdle /\ SrIdle /\ CoreIdle
NextNormalize == Normalize
SpecNormalize == InitNormalize /\ [][NextNormalize]_vars

InitProgress == SseIdle /\ NuIdle /\ CpIdle /\ PgIdle /\ HIdle /\ SrIdle /\ CoreIdle
SpecProgress == InitProgress /\ [][NextProgress]_vars

InitCreatePlan == CpInit /\ NuIdle /\ SseIdle /\ PgIdle /\ HIdle /\ SrIdle /\ CoreIdle
SpecCreatePlan == InitCreatePlan /\ [][NextCreatePlan]_vars

InitPaginate == PgInit /\ NuIdle /\ SseIdle /\ CpIdle /\ HIdle /\ SrIdle /\ CoreIdle
SpecPaginate == InitPaginate /\ [][NextPaginate]_vars

InitSimpleRun == SrInit /\ NuIdle /\ SseIdle /\ CpIdle /\ PgIdle /\ HIdle /\ CoreIdle
SpecSimpleRun == InitSimpleRun /\ [][NextSimpleRun]_vars

InitHandlers == HIdle /\ NuIdle /\ SseIdle /\ CpIdle /\ PgIdle /\ SrIdle /\ CoreIdle
SpecHandlers == InitHandlers /\ [][NextHandlers]_vars

(***************************************************************************)
(* Claims                                                                  *)
(***************************************************************************)
(* C4: the chunks returned by splitContextIntoChunks, concatenated in order,
   are exactly the input text. *)
ChunksReconstructText ==
    ckPc = "returned" => Concat(ckChunks) = ckText

\* a text that was split after a paragraph break
ChunksReconstructWitness ==
    /\ ckPc = "returned"
    /\ Len(ckChunks) >= 2
    /\ Len(ckChunks[1]) >= 2
    /\ ckChunks[1][Len(ckChunks[1])] = "\n"
    /\ ckChunks[1][Len(ckChunks[1]) - 1] = "\n"
    /\ Concat(ckChunks) = ckText

(* C5: no chunk returned by splitContextIntoChunks is longer than the chunk
   size, whichever break point was chosen. *)
NoChunkExceedsSize ==
    ckPc = "returned" => \A i \in 1..Len(ckChunks) : Len(ckChunks[i]) <= ckSize

\* a split whose first chunk was cut before the chunk size, at a line break
\* or a space of the last 20%, and whose second chunk is not empty
NoChunkExceedsWitness ==
    /\ ckPc = "returned"
    /\ Len(ckChunks) >= 2
    /\ Len(ckChunks[1]) < ckSize
    /\ ckChunks[1][Len(ckChunks[1])] \in {"\n", " "}
    /\ Len(ckChunks[2]) >= 1
    /\ \A i \in 1..Len(ckChunks) : Len(ckChunks[i]) <= ckSize

(* C6: every query returned by expandQueriesWithLLM is at most 60 characters
   long. *)
AllQueriesAtMost60 ==
    exPc = "returned" => \A q \in exResult : Len(q) <= 60

(* C7: the result of expandQueriesWithLLM contains every seed query of at
   most 60 characters, also when the candidates are more than the cap. *)
EverySeedKept ==
    exPc = "returned" =>
        \A q \in Elems(exBase) : Len(q) <= 60 => q \in exResult

(* C8: expandQueriesWithLLM never returns more than 150 queries. *)
AtMost150Queries ==
    exPc = "returned" => Cardinality(exResult) <= 150

\* a call whose candidates were more than the cap and whose result is the cap
AtMost150Witness ==
    /\ exPc = "returned"
    /\ Cardinality(Expanded(exBase, exExpansion)) > 150
    /\ Cardinality(exResult) = 150

(* C2: with parallelism P >= 1, at no instant do more than P query tasks hold
   the admission gate, however many results each of them works through. *)
AtMostPHoldGate ==
    psParallel >= 1 => Cardinality(Holding) <= psParallel

\* the gate is full while another task waits for it
AtMostPWitness ==
    /\ psParallel >= 1
    /\ Cardinality(Holding) = psParallel
    /\ \E t \in Tasks : psPc[t] = "acquire"
    /\ \E t \in Tasks : psPc[t] = "locked" /\ psLeft[t] = 1

(* C3: at every report attempt the context placed into the report prompt is
   no longer than the ceiling in force for that attempt, after a compression
   that succeeded as well as after one that failed. *)
PromptContextWithinCeiling ==
    rpPc = "chat" => rpCtx <= rpCeil

(* C1: when an exhaustive run ends, the researcher holds as many sources as
   the SeenURL set holds normalized URLs, and no two sources have URLs with
   the same normalized form. *)
SourcesMatchSeenURLs ==
    runPc = "returned" =>
        /\ Len(sources) = Cardinality(seenURLs)
        /\ \A i, j \in 1..Len(sources) :
              i # j => normalizeURL(sources[i]) # normalizeURL(sources[j])

\* a run that ended with several sources after skipping duplicates
SourcesMatchWitness ==
    /\ runPc = "returned"
    /\ Len(sources) >= 2
    /\ totalDuplicates >= 1

(* C9: when cancellation is observed during an exhaustive run, the job
   reaches complete with a result that holds every source collected and a
   non-empty report. *)
CancelledRunCompletesWithReport ==
    [][(execPc = "running" /\ execPc' = "done" /\ cancelObserved) =>
           /\ jobStatus' = "complete"
           /\ jobResult' = <<[Report |-> "report", Sources |-> sources]>>]_vars

(* C10: once the run has observed cancellation it requests no page and
   starts no round; the step that observes it enters report generation over
   the context collected, and nothing but report generation follows. *)
NoNewWorkAfterCancel ==
    [][/\ cancelObserved =>
              ~(RoundStart \/ PageError \/ PageEmpty
                  \/ \E searchResults \in Pages : PageResults(searchResults))
       /\ (~cancelObserved /\ cancelObserved') =>
              (runPc' = "report" /\ rpPc' = "attempt" /\ rpCtx' = researchContext')
       /\ cancelObserved => runPc' \in {"report", "returned"}]_vars

\* cancellation was observed in the middle of a round, with sources and
\* findings collected, and the report is about to be written
NoNewWorkWitness ==
    /\ cancelObserved
    /\ runPc = "report"
    /\ rpPc = "attempt"
    /\ Len(sources) >= 1
    /\ researchContext > PreambleLen

(* C11: writeReport makes at most three report-generation calls; on
   attempt k it enters compression only when the context exceeds the
   current ceiling, which is half the budget on the first attempt, and then
   with target ratio 0.5 / k. *)
ReportLadder ==
    [][/\ rpCalls' <= 3
       /\ rpAttempt' \in 0..3
       /\ (rpPc' = "attempt" /\ rpAttempt' = 1) => rpCeil' = HalfChars(Budget)
       /\ (rpPc = "attempt" /\ rpPc' = "chat") => ~(rpCtx > rpCeil)
       /\ (rpPc = "attempt" /\ rpPc' = "compressing") =>
              /\ rpCtx > rpCeil
              /\ cmCaller' = "report"
              /\ cmIn' = rpCtx
              /\ cmK' = rpAttempt]_vars

\* the third attempt compresses with ratio 0.5 / 3 after two failed calls
ReportLadderWitness ==
    /\ rpPc = "compressing"
    /\ rpAttempt = 3
    /\ rpCalls = 2
    /\ cmPc = "enter"
    /\ cmK = 3

(* C12: after a round, RunExhaustive goes to report generation exactly when
   the sources collected are at least MinResults, or every query of the
   plan has been issued, or MaxLoops rounds are done; otherwise it starts
   the next round with queries not yet issued. Nothing else leads to report
   generation. *)
RoundLoopExit ==
    [][/\ runPc = "minCheck" =>
              /\ runPc' = "report" <=> Len(sources) >= cfgMinResults
              /\ runPc' # "report" => (runPc' = "loop" /\ round' = round + 1)
       /\ (runPc = "loop" /\ runPc' # "loop") =>
              /\ runPc' = "report" <=>
                     (queryIndex >= planQueries \/ round >= cfgMaxLoops)
              /\ runPc' # "report" =>
                     (runPc' = "search" /\ query' = queryIndex + 1
                                        /\ queryIndex' > queryIndex)
       /\ (runPc # "report" /\ runPc' = "report") =>
              runPc \in {"minCheck", "loop"}]_vars

\* a second round was started because the target was not reached, queries
\* were left and MaxLoops allowed it
RoundLoopExitWitness ==
    /\ runPc = "search"
    /\ round = 1
    /\ Len(sources) >= 1
    /\ Len(sources) < cfgMinResults
    /\ queryIndex < planQueries

(* C13: normalizeURL is idempotent: normalizing its own result changes
   nothing. *)
NormalizeIdempotent ==
    nuPc = "done" => nuTwice = nuOnce

\* the query of a URL without its tracking parameters
NonTracking(u) == SelectSeq(u.params, LAMBDA k : k \notin trackingParams)

\* two URLs differ at most by tracking parameters and by one trailing slash
DifferByTrackingOrSlash(u, v) ==
    /\ u.site = v.site
    /\ u.parses = v.parses
    /\ NonTracking(u) = NonTracking(v)
    /\ u.slashes - v.slashes \in {-1, 0, 1}

(* C14: two result URLs that differ only by tracking parameters or by one
   trailing slash normalize to the same value, and when both are results of
   a run the first is recorded and the second is one duplicate that adds no
   source and no findings text. *)
VariantsAreOneDuplicate ==
    (nuPc = "done" /\ DifferByTrackingOrSlash(nuURL, nuOther)) =>
        /\ normalizeURL(nuURL) = normalizeURL(nuOther)
        /\ nuPair.sources = <<nuURL>>
        /\ nuPair.newURLs = 1
        /\ nuPair.duplicates = 1
        /\ nuPair.results = ResultTextLen

(* C15: a failing search request never makes the run return an error: the
   pagination of that query stops, nothing is recorded for the page, the
   next query of the batch is searched from its first page, and after the
   last query of the batch the round goes on. The run returns an error only
   for a plan without queries or for a failed report. *)
SearchFailureIsolated ==
    [][/\ (runPc = "search" /\ searchErr') =>
              /\ runErr' = "none"
              /\ sources' = sources
              /\ newURLs' = newURLs
              /\ duplicates' = duplicates
              /\ query < endIndex =>
                     (runPc' = "search" /\ query' = query + 1 /\ page' = 1)
              /\ query = endIndex => runPc' = "roundEnd"
       /\ (runPc = "roundEnd" /\ runPc' # "roundEnd") =>
              runPc' \in {"minCheck", "compressing"}
       /\ (runErr = "none" /\ runErr' # "none") =>
              \/ runPc = "start" /\ planQueries = 0
              \/ runPc = "report" /\ rpOut = "error"]_vars

\* the first query of a batch of two failed on its second page, after a
\* source was recorded, and the second query is about to be searched
SearchFailureWitness ==
    /\ runPc = "search"
    /\ searchErr
    /\ query = 2
    /\ page = 1
    /\ endIndex = 2
    /\ Len(sources) >= 1

(* C16: every client that is registered when a terminal event is emitted
   receives it: while its stream lasts, the event is in its channel or has
   been written to it. *)
TerminalEventDelivered ==
    \A c \in sseAtTerminal :
        ssePc[c] = "streaming" =>
            \E i \in 1..Len(sseCh[c]) : sseCh[c][i] \in terminalPhases

(* C17: when the expansion response cannot be parsed, CreatePlanExhaustive
   returns a plan without error whose search queries are the seed queries,
   none dropped or altered. *)
UnparseableExpansionKeepsSeeds ==
    (cpPc = "returned" /\ cpExpansion = "unparseable") =>
        /\ ~cpErr
        /\ cpQueries = Elems(cpSeeds)

\* the term of the claim occurs at offset i of the seed, letter case ignored
OccursFold(seed, term, i) ==
    /\ i + Len(term) <= Len(seed)
    /\ \A k \in 1..Len(term) : LowerChar(seed[i + k]) = LowerChar(term[k])

RECURSIVE ReplaceFold(_, _, _)
\* the seed with every occurrence of the term, letter case ignored, replaced
\* by the alternative, and the rest of the seed as it is
ReplaceFold(seed, term, alt) ==
    IF seed = <<>> THEN <<>>
    ELSE IF term # <<>> /\ OccursFold(seed, term, 0)
         THEN alt \o ReplaceFold(SubSeq(seed, Len(term) + 1, Len(seed)), term, alt)
         ELSE <<Head(seed)>> \o ReplaceFold(Tail(seed), term, alt)

(* C18, as stated: for every seed of at most 50 characters and every synonym
   term that occurs in it, letter case ignored, the expanded set contains,
   for each alternative, the seed with the term replaced by the alternative,
   if that variant has at most 60 characters. *)
SynonymVariantsPresentAsStated ==
    exPc = "returned" =>
        \A q \in {b \in Elems(exBase) : Len(b) <= 50} :
            \A w \in {t \in DOMAIN exExpansion.Synonyms : t # <<>>} :
                (\E i \in 0..Len(q) : OccursFold(q, w, i)) =>
                    \A alt \in Elems(exExpansion.Synonyms[w]) :
                        Len(ReplaceFold(q, w, alt)) <= 60 =>
                            ReplaceFold(q, w, alt) \in exResult

(* C18, amended: when the candidates are not more than the cap of 150, the
   expanded set contains the variant in lower case, for each alternative
   that differs from the term in more than letter case. *)
SynonymVariantsPresent ==
    (exPc = "returned" /\ Cardinality(Expanded(exBase, exExpansion)) <= maxQueries) =>
        \A q \in {b \in Elems(exBase) : Len(b) <= 50} :
            \A w \in {t \in DOMAIN exExpansion.Synonyms : t # <<>>} :
                (\E i \in 0..Len(q) : OccursFold(q, w, i)) =>
                    \A alt \in {a \in Elems(exExpansion.Synonyms[w]) :
                                    ToLower(a) # ToLower(w)} :
                        Len(ReplaceFold(q, w, alt)) <= 60 =>
                            ToLower(ReplaceFold(q, w, alt)) \in exResult

\* the seed "A FLAT" was expanded with flat -> apartment and a second
\* alternative, and "a apartment" is in the result
SynonymVariantsWitness ==
    /\ exPc = "returned"
    /\ FlatUpper \in Elems(exBase)
    /\ Flat \in DOMAIN exExpansion.Synonyms
    /\ Len(exExpansion.Synonyms[Flat]) = 2
    /\ ToLower(ReplaceFold(FlatUpper, Flat, Apartment)) \in exResult
    /\ ReplaceFold(FlatUpper, Flat, Apartment) \notin exResult

(* C19: every mutation of the Source list and every read of it happens
   while the accessing task holds the lock of the researcher, a.mu, in
   simple mode as in exhaustive mode. The accesses of simple mode are
   logged with the lock held. *)
SourcesOnlyUnderResearcherLock ==
    psAccess \subseteq {"a.mu"}

(* C20: for every call of searchWithPagination, the new URLs and the
   duplicates it returns add up to the number of results of all the pages
   it processed. *)
CountsAddUpToResults ==
    runPc = "roundEnd" => newURLs + duplicates = resultCount

\* a call has returned after pages with three results, one of them new and
\* two duplicates
CountsAddUpWitness ==
    /\ runPc = "roundEnd"
    /\ resultCount = 3
    /\ newURLs = 1
    /\ duplicates = 2

(* C21: across the rounds of one RunExhaustive each plan query is handed to
   the executor at most once and in plan order: a batch starts at the query
   after the last one issued, holds at most ParallelQuery queries of the
   plan and is the next of at most MaxLoops batches; inside a batch the
   queries are searched one after the other; so never more than
   MaxLoops x ParallelQuery queries are issued. *)
BatchesInPlanOrder ==
    /\ [](queryIndex <= cfgMaxLoops * cfgParallelQuery /\ queryIndex <= planQueries)
    /\ [][/\ (runPc = "loop" /\ runPc' = "search") =>
               /\ round < cfgMaxLoops
               /\ query' = queryIndex + 1
               /\ endIndex' = queryIndex'
               /\ queryIndex' > queryIndex
               /\ queryIndex' - queryIndex <= cfgParallelQuery
          /\ (runPc = "search" /\ runPc' = "search") =>
               /\ query' \in {query, query + 1}
               /\ query' <= endIndex
               /\ queryIndex' = queryIndex
          /\ (runPc \in {"roundEnd", "compressing", "minCheck"}) =>
               queryIndex' \in {queryIndex, 0}]_vars

\* the second and last batch of a plan of three queries is being searched,
\* one query per batch: the third query is never issued
BatchesWitness ==
    /\ runPc = "search"
    /\ cfgMaxLoops = 2
    /\ cfgParallelQuery = 1
    /\ planQueries = 3
    /\ round = 1
    /\ query = 2
    /\ queryIndex = 2

(* C22: every call of compressContext eventually returns, whatever the
   generation capability answers. In the model the passes that change the
   text are counted up to MaxPasses, so the property is: a call returns or
   reaches that count. *)
CompressContextReturns ==
    (cmPc = "enter") ~> (cmPc = "done" \/ cmPasses = MaxPasses)

(* C23: for every ParallelQuery >= 0 and any number of queries, when every
   capability call returns, every query task acquires the admission gate
   and releases it, and parallelSearch returns. *)
ParallelSearchReturns ==
    <>(/\ psMain # "wait"
       /\ \A t \in Tasks : psPc[t] = "done")

(* C24: when the round loop of a run ends, for whatever reason, writeReport
   is entered, at its first attempt and with the working context; it is
   entered once per run: the run leaves report generation only by
   returning, and the ladder is not started again; and the run returns an
   error exactly when writeReport does. *)
ReportAttemptedOnce ==
    [][/\ (runPc \in {"loop", "minCheck"} /\ runPc' \notin {"loop", "search"}) =>
              /\ runPc' = "report"
              /\ rpPc' = "attempt"
              /\ rpAttempt' = 1
              /\ rpCtx' = researchContext
       /\ (runPc' = "report" /\ runPc # "report") => runPc \in {"loop", "minCheck"}
       /\ runPc = "report" =>
              /\ runPc' \in {"report", "returned"}
              /\ rpAttempt' >= rpAttempt \/ runPc' = "returned"
              /\ runPc' = "returned" =>
                     /\ rpPc = "returned"
                     /\ (runErr' # "none") <=> (rpOut = "error")
       /\ (runPc' = "returned" /\ runPc \notin {"report", "returned"}) =>
              (runPc = "start" /\ runErr' = "noQueries")]_vars

\* a run that collected a source has returned the error of the ladder
ReportAttemptedWitness ==
    /\ runPc = "returned"
    /\ runErr = "report"
    /\ Len(sources) > 0

\* a step of writeReport from a failed report call to the next attempt
RetryStep == rpPc = "chat" /\ rpPc' = "attempt"

(* C25, as stated: after a budget-related failure on attempt k < 3 the
   ceiling is halved and the next attempt reuses the context as attempt k
   left it, without compressing again; a failure on the third attempt is
   terminal. *)
RetryReusesContextAsStated ==
    [][/\ RetryStep =>
              /\ rpAttempt < maxRetries
              /\ rpAttempt' = rpAttempt + 1
              /\ rpCeil' = rpCeil \div 2
              /\ rpCtx' = rpCtx
       /\ rpAttempt > 1 => rpPc' # "compressing"
       /\ (rpPc = "chat" /\ rpAttempt = maxRetries) => rpPc' \in {"chat", "returned"}]_vars

(* C25, amended: after a budget-related failure on attempt k < 3 the ceiling
   is halved and the next attempt starts from the context as attempt k left
   it; if that context is longer than the halved ceiling it is compressed
   again, itself and not another text, and otherwise used as it is; a
   failure on the third attempt is terminal. *)
RetryReusesContext ==
    [][/\ RetryStep =>
              /\ rpAttempt < maxRetries
              /\ rpAttempt' = rpAttempt + 1
              /\ rpCeil' = rpCeil \div 2
              /\ rpCtx' = rpCtx
       /\ (rpAttempt > 1 /\ rpPc = "attempt") =>
              /\ rpPc' = "compressing" => (rpCtx > rpCeil /\ cmIn' = rpCtx)
              /\ rpPc' = "chat" => (~(rpCtx > rpCeil) /\ rpCtx' = rpCtx)
       /\ (rpPc = "chat" /\ rpAttempt = maxRetries) => rpPc' \in {"chat", "returned"}
       /\ (rpPc = "chat" /\ rpPc' = "returned" /\ rpOut' = "error") =>
              rpCalls' = rpAttempt]_vars

\* the second attempt compresses again the context that the first attempt
\* left within the first ceiling
RetryReusesWitness ==
    /\ rpAttempt = 2
    /\ rpCalls = 1
    /\ rpPc = "compressing"
    /\ cmPc = "enter"
    /\ cmIn = rpCtx
    /\ rpCtx > rpCeil
    /\ rpCtx <= 2 * rpCeil + 1

(* C26: whenever the chunked compression path returns, it returns without
   error a text no longer than 60% of the budget, and a context over 60% of
   the budget takes the chunked path, not the direct one; so a context of
   10,000 bytes with a budget of 4,000 is compressed in chunks to at most
   2,400 bytes. *)
ChunkedOutputWithinTarget ==
    /\ []((cmPc = "done" /\ cmCount > 0) =>
              (~cmErr /\ cmOut <= MaxInputChars(Budget)))
    /\ [][(cmPc = "enter" /\ cmPc' # "enter") =>
              (cmPc' = "chunks" <=> cmIn > MaxInputChars(Budget))]_vars

\* the scenario: 10,000 bytes, budget 4,000, compressed in five chunks or
\* more to at most 2,400 bytes
ChunkedOutputWitness ==
    /\ Budget = 4000
    /\ cmIn = 10000
    /\ cmPc = "done"
    /\ cmCount >= 5
    /\ cmOut <= 2400

(* C27: after the findings of a round are appended, RunExhaustive calls
   compressContext, on the working context and with ratio 0.5, exactly when
   the context is longer than half the budget; when that compression fails
   the context stays as it was and the round goes on to the target check
   without error. *)
RoundCompressionOnlyOverHalf ==
    [][/\ runPc = "roundEnd" =>
              /\ researchContext' = WithRoundResults(researchContext, results)
              /\ runPc' = "compressing" <=> researchContext' > HalfChars(Budget)
              /\ runPc' = "compressing" =>
                     /\ cmPc' = "enter"
                     /\ cmIn' = researchContext'
                     /\ cmK' = 1
              /\ runPc' # "compressing" => (runPc' = "minCheck" /\ cmPc' = "idle")
       /\ (runPc = "compressing" /\ cmErr /\ runPc' # "compressing") =>
              /\ researchContext' = researchContext
              /\ runErr' = "none"
              /\ runPc' = "minCheck"]_vars

\* the compression of a context over half the budget has failed
RoundCompressionWitness ==
    /\ runPc = "compressing"
    /\ cmCaller = "round"
    /\ cmPc = "done"
    /\ cmErr
    /\ researchContext > HalfChars(Budget)
    /\ researchContext <= MaxInputChars(Budget)

(* C28: for a query, searchWithPagination requests the pages 1, 2, 3, ...
   in this order, requests no page after one that came back empty or with
   an error, and requests at most MaxPages pages, 100 when MaxPages is 0. *)
PagesInOrderUpToMax ==
    /\ [](/\ \A i \in 1..Len(pgRequested) : pgRequested[i] = i
          /\ Len(pgRequested) <= (IF pgMaxPages = 0 THEN 100 ELSE pgMaxPages))
    /\ [][pgRequested' # pgRequested => pgAnswer \notin {"empty", "error"}]_vars

\* auto-pagination has stopped after 100 pages that all had results
PagesWitness ==
    /\ pgMaxPages = 0
    /\ pgPc = "done"
    /\ pgAnswer = "results"
    /\ Len(pgRequested) = 100

(* C29: at most one research job is in progress at any time: never are two
   create-plan requests past the check together, and s.currentJob is
   replaced by a new job only when it is not planning, awaiting approval or
   running; a rejected request leaves the job as it is. *)
OneJobInProgress ==
    /\ [](Cardinality({h \in Requests : hPc[h] \in {"createPlan", "planning"}}) <= 1)
    /\ [][/\ hJob' # hJob => hStatus \notin inProgress
          /\ (\E h \in Requests : hReply'[h] = "conflict" /\ hReply[h] # "conflict") =>
                 UNCHANGED <<hStatus, hJob, hPlan, hResearcher>>]_vars

(* C30: approve is accepted only while the job awaits approval, and every
   approved plan starts one execution: no two executeResearch goroutines
   are started on the same researcher. *)
OneExecutionPerPlan ==
    /\ [](\A r1, r2 \in hRuns : r1.researcher = r2.researcher => r1 = r2)
    /\ [][\A h \in Requests :
              (hPc[h] = "read" /\ hPc'[h] = "start") => hStatus = "awaiting_approval"]_vars

(* C31: once handleCancel has set the status of the job to cancelled, the
   job reaches status complete with a Result, or status error, in the end:
   it does not stay cancelled for ever. *)
CancelledJobEnds ==
    (jobStatus = "cancelled") ~>
        ((jobStatus = "complete" /\ jobResult # <<>>) \/ jobStatus = "error")

(* C32: the outcome of an execution (Result and status complete, or Error
   and status error) is written into the job whose plan the execution ran,
   never into another job. *)
OutcomeWrittenToOwnJob == \A o \in hOutcomes : o.of = o.into

(* C33: the status of the current job changes only along the transitions
   {idle, complete, error, cancelled} -> planning; planning ->
   awaiting_approval, error, idle; awaiting_approval -> planning, running,
   idle; running -> cancelled, complete, error; cancelled -> complete,
   error. *)
StatusTransitions ==
    ({"idle", "complete", "error", "cancelled"} \X {"planning"})
        \cup ({"planning"} \X {"awaiting_approval", "error", "idle"})
        \cup ({"awaiting_approval"} \X {"planning", "running", "idle"})
        \cup ({"running"} \X {"cancelled", "complete", "error"})
        \cup ({"cancelled"} \X {"complete", "error"})
StatusFollowsTransitions ==
    [][hStatus' # hStatus => <<hStatus, hStatus'>> \in StatusTransitions]_vars

(* C34: in compressContextChunked a chunk whose compression fails does not
   fail the pass: its part is its first chunkSize/4 bytes and the truncation
   marker, or the whole chunk when it is not longer than chunkSize/4; the
   pass goes on with the next chunk and ends, without error, only when no
   chunk is left. *)
ChunkFailureKeepsPass ==
    /\ [][cmFailed' = cmFailed + 1 =>
            LET chunk == cmLeft - cmLeft'
                part == cmJoined' - (IF cmCount = 0 THEN 0 ELSE cmJoined + separatorLen)
                quarter == ChunkSize(Budget) \div 4
            IN  /\ part = IF chunk > quarter THEN quarter + truncatedMarkerLen ELSE chunk
                /\ cmCount' = cmCount + 1
                /\ cmPc' = "chunks"
                /\ cmErr' = cmErr]_vars
    /\ []((cmPc = "done" /\ cmCount > 0) => (~cmErr /\ cmLeft = 0))

\* a pass has ended in which one chunk failed and was cut, and the others
\* were compressed
ChunkFailureWitness ==
    /\ cmPc = "done"
    /\ cmPasses = 0
    /\ cmFailed = 1
    /\ cmCount >= 5
    /\ ~cmErr

(* C35: compressContextDirect either reports a failure and returns its
   input as it was (the capability failed or its answer is under 200
   bytes), or returns the capability's answer, which then is 200 bytes or
   more. *)
DirectFailsOrReturnsAnswer ==
    [][(cmPc = "enter" /\ cmPc' = "done") =>
          IF cmErr'
          THEN cmOut' = cmIn
          ELSE /\ cmOut' \in CompressedLens(cmIn, cmK)
               /\ cmOut' >= minCompressedLen]_vars

\* a direct compression on its own has failed and handed its input back
DirectFailureWitness ==
    /\ cmCaller = "unit"
    /\ cmPc = "done"
    /\ cmCount = 0
    /\ cmErr
    /\ cmOut = cmIn
    /\ cmIn = 2400

(* C36: a report call that fails with an error mentioning neither "context"
   nor "token" ends writeReport with an error at once: no attempt follows
   and the ceiling is as it was. *)
OtherErrorIsTerminal ==
    /\ [][(rpPc = "chat" /\ rpChatErr' = "other") =>
            (rpPc' = "returned" /\ rpOut' = "error" /\ rpCeil' = rpCeil
                /\ rpAttempt' = rpAttempt)]_vars
    /\ [][(rpPc = "returned" /\ rpChatErr = "other") =>
            (rpCalls' = 0 \/ UNCHANGED <<rpCalls, rpCeil, rpAttempt>>)]_vars

\* the first report call has failed with such an error
OtherErrorWitness ==
    /\ rpPc = "returned"
    /\ rpChatErr = "other"
    /\ rpOut = "error"
    /\ rpAttempt = 1
    /\ rpCalls = 1
    /\ rpCeil = HalfChars(Budget)

(* C37: in simple mode, when the decision call of a round fails or its
   response is malformed, Run returns an error at once: it has returned no
   report and no sources, it asks for no report, and it searches no more. *)
DecisionFailureEndsRun ==
    /\ [](\A r \in SimpleRuns :
             srRun[r].err = "decision" =>
                 /\ srRun[r].pc = "returned"
                 /\ srRun[r].result = NoSimpleResult
                 /\ srRun[r].reports = 0)
    /\ [][\A r \in SimpleRuns :
             srRun[r].err = "decision" => srRun'[r] = srRun[r]]_vars

\* the decision of the second round failed, after a round that searched
DecisionFailureWitness ==
    \E r \in SimpleRuns :
        /\ srRun[r].err = "decision"
        /\ srRun[r].decides = 2
        /\ srRun[r].searches = 1
        /\ r \in srSources

(* C38: a simple-mode Run makes at most MaxLoops decisions; a decision that
   is final or has no queries, and the end of the rounds, lead straight to
   the report, and after them the run neither decides nor searches again. *)
AtMostMaxLoopsRounds ==
    /\ [](\A r \in SimpleRuns :
             /\ srRun[r].decides <= srMaxLoops
             /\ srRun[r].searches <= srRun[r].decides
             /\ srRun[r].stop = "exhausted" => srRun[r].i = srMaxLoops)
    /\ [][\A r \in SimpleRuns :
             /\ (srRun[r].stop = "none" /\ srRun'[r].stop # "none") =>
                    srRun'[r].pc = "report"
             /\ srRun[r].stop # "none" =>
                    /\ srRun'[r].searches = srRun[r].searches
                    /\ srRun'[r].decides = srRun[r].decides
                    /\ srRun'[r].pc \in {"report", "returned"}
             /\ (srRun[r].pc = "report" /\ srRun'[r] # srRun[r]) =>
                    srRun'[r].reports = 1]_vars

\* a run of three rounds that searched three times and then asked for the
\* report, and one that stopped at a final decision after one search
AtMostMaxLoopsWitness ==
    /\ srMaxLoops = 3
    /\ \E r \in SimpleRuns :
          /\ srRun[r].stop = "exhausted"
          /\ srRun[r].searches = 3
          /\ srRun[r].reports = 1
    /\ \E r \in SimpleRuns :
          /\ srRun[r].stop = "final"
          /\ srRun[r].searches = 1
          /\ srRun[r].reports = 1

(* C39: a.sources is empty when a run starts, so the result of a run holds
   only sources that this run collected. *)
ResultHoldsOwnSources ==
    \A r \in SimpleRuns : srRun[r].result.sources \subseteq {r}

(* C40: onProgress never sends on a closed client channel: a channel is
   closed only after it has left the client set, and every send is made
   under s.sseMu to a channel of the set. *)
NoSendOnClosedChannel ==
    /\ [](~sseSentOnClosed /\ sseClosed \cap sseClients = {})
    /\ [][\A c \in Clients :
             sseCh'[c] # sseCh[c] /\ Len(sseCh'[c]) > Len(sseCh[c]) =>
                 (sseMuHeld /\ c \in sseClients)]_vars

\* a broadcast has gone to one client while the channel of another, who
\* left during the run, was closed
NoSendOnClosedWitness ==
    /\ sseClosed # {}
    /\ sseMuHeld
    /\ \E c \in sseClients : c \notin sseBroadcast.left /\ sseCh[c] # <<>>

====
